---- MODULE Spec2Model ----
(***************************************************************************)
(* Model of the PDR-Date-Bot event-logging and backup pipeline:            *)
(*   - the Log Store (database/log_repository.py, database/models.py),     *)
(*   - the Log Flush Engine (services/Logger.py, TelegramLogger),          *)
(*   - the task supervisor (handlers/loops.py, run_task),                  *)
(*   - the Dual-Store Sync Engine (services/Users.py, UsersUpdater, and    *)
(*     database/user_repository.py).                                       *)
(*                                                                         *)
(* Texts are sequences of atoms.  An atom is a run of characters that the  *)
(* code never cuts: a markup tag, a newline, or a run of visible           *)
(* characters of a given length.  Lengths are sums of atom lengths, so the *)
(* program's 4096 limit is kept as it is.                                  *)
(***************************************************************************)
EXTENDS Integers, Sequences, FiniteSets, TLC

\* ------------------------------------------------------------------------
\* Bounds of the model
\* ------------------------------------------------------------------------
MaxInserts == 3
MaxFaults == 1
MaxMutations == 3
MaxCalls == 2
MaxFailures == 145
MaxHints == 2
MaxRows == 3
MaxScans == 2
MaxQuarters == 28
MaxTexts == 2

\* ------------------------------------------------------------------------
\* Program constants
\* ------------------------------------------------------------------------
LOGS_CUTOFF == 50000
CHUNK_LIMIT == 4096
None == 0

\* ------------------------------------------------------------------------
\* Texts
\* ------------------------------------------------------------------------
BQ_OPEN == "<blockquote>"
BQ_CLOSE == "</blockquote>"
NL == "\n"
B_OPEN == "<b>"
B_CLOSE == "</b>"
TAGS == "<a href=..>*"

Atoms ==
    {BQ_OPEN, BQ_CLOSE, NL, B_OPEN, B_CLOSE, TAGS,
     "h10", "h11", "b1500", "b3000", "b4090", "b5000", "big_msg", ": #split"}

\* len() of one atom, in characters
AtomLen(a) ==
    CASE a = BQ_OPEN -> 12
      [] a = BQ_CLOSE -> 13
      [] a = NL -> 1
      [] a = B_OPEN -> 3
      [] a = B_CLOSE -> 4
      [] a = TAGS -> 1000
      [] a = "h10" -> 10
      [] a = "h11" -> 10
      [] a = "b1500" -> 1500
      [] a = "b3000" -> 3000
      [] a = "b4090" -> 4090
      [] a = "b5000" -> 5000
      [] a = "big_msg" -> 17
      [] a = ": #split" -> 8

\* an atom matched by the pattern '<.*?>'
IsTag(a) == a \in {BQ_OPEN, BQ_CLOSE, B_OPEN, B_CLOSE, TAGS}

RECURSIVE TextLen(_)
TextLen(t) == IF t = <<>> THEN 0 ELSE AtomLen(Head(t)) + TextLen(Tail(t))

\* functions/html.py sub_tag: re.sub('<.*?>', '', text)
sub_tag(t) == SelectSeq(t, LAMBDA a : ~IsTag(a))

\* functions/html.py bold
bold(t) == <<B_OPEN>> \o t \o <<B_CLOSE>>

\* str.strip('\n')
RECURSIVE LStripNL(_)
LStripNL(t) == IF t # <<>> /\ Head(t) = NL THEN LStripNL(Tail(t)) ELSE t

RECURSIVE RStripNL(_)
RStripNL(t) ==
    IF t # <<>> /\ t[Len(t)] = NL THEN RStripNL(SubSeq(t, 1, Len(t) - 1)) ELSE t

StripNL(t) == RStripNL(LStripNL(t))

\* str.split('</blockquote>\n'): the pieces, left to right
RECURSIVE SplitBQ(_, _)
SplitBQ(t, piece) ==
    IF t = <<>> THEN <<piece>>
    ELSE IF Len(t) >= 2 /\ t[1] = BQ_CLOSE /\ t[2] = NL
         THEN <<piece>> \o SplitBQ(SubSeq(t, 3, Len(t)), <<>>)
         ELSE SplitBQ(Tail(t), Append(piece, Head(t)))

\* '</blockquote>'.join(pieces)
RECURSIVE JoinBQ(_)
JoinBQ(pieces) ==
    IF pieces = <<>> THEN <<>>
    ELSE IF Len(pieces) = 1 THEN pieces[1]
         ELSE pieces[1] \o <<BQ_CLOSE>> \o JoinBQ(Tail(pieces))

\* The entry texts handlers insert.
TextS == <<BQ_OPEN, "h10", BQ_CLOSE>>
TextM == <<BQ_OPEN, "h10", BQ_CLOSE, NL, "b3000">>
TextL == <<BQ_OPEN, "h10", BQ_CLOSE, NL, "b4090">>
TextX == <<BQ_OPEN, "h10", BQ_CLOSE, NL, "b5000">>
TextT == <<BQ_OPEN, "h11", BQ_CLOSE, NL, TAGS, "b1500">>
EntryTexts == {TextS, TextM, TextL, TextX, TextT}


\* ------------------------------------------------------------------------
\* State
\* ------------------------------------------------------------------------
VARIABLES
    \* Log Store (table 'log')
    logs,            \* set of rows [id, text, post_id, post_date]
    nextLogId,       \* the id the next inserted row gets
    \* flush task: run_task(logger_queue_handler) and its locals
    pc,              \* position of the flush task
    log_entries,     \* send_logs_to_telegram: the rows fetched by this cycle
    logs_to_send,    \* send_logs_to_telegram: the dict chunk text -> ids, in insertion order
    idx,             \* position in logs_to_send.items()
    job,             \* the send_message_to_log_channel call in progress
    logged_message,  \* send_message_to_log_channel: the message returned by the send
    log_ids_to_delete, \* send_message_to_log_channel: ids collected for the archive
    response,        \* send_message_to_log_channel: the message returned by the upload
    \* platform
    chanNext,        \* next message id of the log channel
    clock,           \* date the platform stamps on the next message
    sent,            \* messages the log channel accepted, oldest first
    backups,         \* blobs the archive channel accepted
    notified,        \* number of archive notices the operator chat accepted
    faults,          \* delivery errors injected so far
    cycleStart,      \* Len(sent) when the current cycle fetched
    cycleFaults      \* faults when the current cycle fetched

logVars ==
    <<logs, nextLogId, pc, log_entries, logs_to_send, idx, job, logged_message,
      log_ids_to_delete, response, chanNext, clock, sent, backups, notified,
      faults, cycleStart, cycleFaults>>

VARIABLES
    \* transactional store (tables of User and UserPregnancy)
    users,           \* set of rows [id, full_name, username, language, reaction,
                     \*              google_row_id, needs_backup_update]
    pregnancies,     \* set of rows [id, user_id, chat_id, pdr_date, period_date,
                     \*              gender, needs_backup_update]
    \* spreadsheet: the two worksheets, row number -> cells, and their row counts
    usersSheet,
    datesSheet,
    usersGrid,
    datesGrid,
    \* push task: back_up_users under run_task(scheduled_actions)
    spc,             \* position of the push
    table,           \* the loop the push is in: "users" or "dates"
    queue,           \* the records returned by get_..._to_backup, as loaded
    qi,              \* position in the loop
    run,             \* the current push: no failure and no mutation so far; over;
                     \* the ids of the records it loaded
    mutations,       \* number of mutating repository calls so far
    sfaults,         \* number of spreadsheet failures so far
    \* pull: update_users_in_database
    pull,            \* position of the pull
    incomingUsers,   \* the list handed to sync_users
    incomingDates,   \* the list handed to sync_pregnancies
    pre              \* the two tables as they were before the pull

syncVars ==
    <<users, pregnancies, usersSheet, datesSheet, usersGrid, datesGrid, spc, table,
      queue, qi, run, mutations, sfaults, pull, incomingUsers, incomingDates, pre>>

VARIABLES
    \* update handlers in flight (aiogram runs each update as its own task)
    calls,           \* call id -> the handler call and its position
    \* background tasks under run_task
    tasks,           \* task name -> position of run_task's loop
    \* one MessageSender.message call and its nested retries
    delivery,
    \* one tick of new_period_notify
    scan,
    \* run_task(scheduled_actions) against the clock
    sched,
    \* the texts table and one update_texts_in_local_database on it
    texts

otherVars == <<calls, tasks, delivery, scan, sched, texts>>

vars == <<logVars, syncVars, otherVars>>

NoMessage == [message_id |-> None, date |-> None]
NoJob == [kind |-> "none", text |-> <<>>, ids |-> <<>>, reply_id |-> None, header |-> <<>>]

\* ------------------------------------------------------------------------
\* Log Store: database/log_repository.py
\* ------------------------------------------------------------------------
SeqToSet(s) == {s[i] : i \in DOMAIN s}

\* the rows of a set, ORDER BY id
RowsById(rows) ==
    LET ids == SelectSeq([i \in 1..(nextLogId - 1) |-> i],
                         LAMBDA i : \E r \in rows : r.id = i)
    IN  [k \in DOMAIN ids |-> CHOOSE r \in rows : r.id = ids[k]]

get_posted_logs_all(rows) == RowsById(rows)
get_posted_logs(rows) == RowsById({r \in rows : r.post_id # None})

get_logs_to_post(rows) == RowsById({r \in rows : r.post_id = None})

insert_log(rows, text) ==
    rows \cup {[id |-> nextLogId, text |-> text, post_id |-> None, post_date |-> None]}

update_posted_logs_id_only(rows, record_ids, post_id, post_date) ==
    {IF r.id \in SeqToSet(record_ids) THEN [r EXCEPT !.post_id = post_id] ELSE r : r \in rows}
update_posted_logs_all_rows(rows, record_ids, post_id, post_date) ==
    {[r EXCEPT !.post_id = post_id, !.post_date = post_date] : r \in rows}
update_posted_logs(rows, record_ids, post_id, post_date) ==
    {IF r.id \in SeqToSet(record_ids)
     THEN [r EXCEPT !.post_id = post_id, !.post_date = post_date]
     ELSE r : r \in rows}

remove_posted_logs_no_where(rows, record_ids) == {}
remove_posted_logs(rows, record_ids) ==
    {r \in rows : ~(r.id \in SeqToSet(record_ids) /\ r.post_id # None)}

\* ------------------------------------------------------------------------
\* Flush Engine: services/Logger.py, TelegramLogger
\* ------------------------------------------------------------------------
\* logs_to_send[key].extend(ids) on a defaultdict(list): an existing key keeps
\* its place and gets the ids appended, a new key goes last
DictExtend(d, key, ids) ==
    IF \E i \in DOMAIN d : d[i].text = key
    THEN [i \in DOMAIN d |-> IF d[i].text = key
                             THEN [d[i] EXCEPT !.ids = @ \o ids] ELSE d[i]]
    ELSE Append(d, [text |-> key, ids |-> ids])

\* the test of the BATCH step: len(sub_tag(f'{current_log_chunk}{log.text}')) <= 4096
Fits_chunk_only(chunk, text) == TextLen(sub_tag(chunk)) <= CHUNK_LIMIT
Fits(chunk, text) == TextLen(sub_tag(chunk \o text)) <= CHUNK_LIMIT

\* the BATCH loop of send_logs_to_telegram and the flush of the last chunk
RECURSIVE BatchLoop(_, _, _, _)
BatchLoop(entries, ids, chunk, dict) ==
    IF entries = <<>>
    THEN IF chunk # <<>> THEN DictExtend(dict, StripNL(chunk), ids) ELSE dict
    ELSE LET log == Head(entries) IN
         IF Fits(chunk, log.text)
         THEN BatchLoop(Tail(entries), Append(ids, log.id), chunk \o log.text \o <<NL>>, dict)
         ELSE BatchLoop(Tail(entries), <<log.id>>, log.text \o <<NL>>,
                        DictExtend(dict, StripNL(chunk), ids))

Batches(entries) == BatchLoop(entries, <<>>, <<>>, <<>>)

\* send_large_log: the header text of the split
SplitHeaderText(header) ==
    header \o <<BQ_CLOSE, NL>> \o bold(<<"big_msg">>) \o <<": #split">>

\* the dispatch of one chunk: send_large_log's first send, or the ordinary send
IsLarge(text) == TextLen(text) > CHUNK_LIMIT

JobFor(chunk) ==
    IF IsLarge(chunk.text)
    THEN LET split_log == SplitBQ(chunk.text, <<>>) IN
         [kind |-> "body", text |-> JoinBQ(Tail(split_log)), ids |-> chunk.ids,
          reply_id |-> None, header |-> Head(split_log)]
    ELSE [kind |-> "plain", text |-> chunk.text, ids |-> chunk.ids,
          reply_id |-> None, header |-> <<>>]

\* send_large_log: the second send, a reply to the first
HeaderJob(j, message) ==
    [kind |-> "header", text |-> SplitHeaderText(j.header), ids |-> j.ids,
     reply_id |-> message.message_id, header |-> j.header]

\* The log channel refuses a text longer than the limit the chunks are cut to
\* (an error that is neither transient nor benign: message() raises it).
PlatformRejects(text) == TextLen(sub_tag(text)) > CHUNK_LIMIT


\* ------------------------------------------------------------------------
\* Actions of the Log pipeline
\* ------------------------------------------------------------------------
LogChannelStarts == {LOGS_CUTOFF - 1, LOGS_CUTOFF}

InitLog ==
    /\ logs = {}
    /\ nextLogId = 1
    /\ pc = "idle"
    /\ log_entries = <<>>
    /\ logs_to_send = <<>>
    /\ idx = 0
    /\ job = NoJob
    /\ logged_message = NoMessage
    /\ log_ids_to_delete = <<>>
    /\ response = NoMessage
    /\ chanNext \in LogChannelStarts
    /\ clock = 1
    /\ sent = <<>>
    /\ backups = <<>>
    /\ notified = 0
    /\ faults = 0
    /\ cycleStart = 0
    /\ cycleFaults = 0

\* a handler's LogRepository.insert_log(text), TelegramLogger.insert_log_to_queue
InsertLog ==
    /\ nextLogId <= MaxInserts
    /\ \E text \in EntryTexts : logs' = insert_log(logs, text)
    /\ nextLogId' = nextLogId + 1
    /\ UNCHANGED <<pc, log_entries, logs_to_send, idx, job, logged_message,
                   log_ids_to_delete, response, chanNext, clock, sent, backups,
                   notified, faults, cycleStart, cycleFaults>>
    /\ UNCHANGED <<syncVars, otherVars>>

\* send_logs_to_telegram: FETCH_PENDING and BATCH; with nothing pending the
\* cycle ends after its one-second sleep
FlushFetch ==
    /\ pc = "idle"
    /\ \E entries \in {get_logs_to_post(logs)} :
       /\ log_entries' = entries
       /\ cycleStart' = Len(sent)
       /\ cycleFaults' = faults
       /\ IF entries = <<>>
          THEN /\ logs_to_send' = <<>>
               /\ idx' = 0
               /\ job' = NoJob
               /\ pc' = "idle"
          ELSE \E batches \in {Batches(entries)} :
               /\ logs_to_send' = batches
               /\ idx' = 1
               /\ job' = JobFor(batches[1])
               /\ pc' = "send"
    /\ logged_message' = NoMessage
    /\ UNCHANGED <<logs, nextLogId, log_ids_to_delete, response, chanNext, clock,
                   sent, backups, notified, faults>>
    /\ UNCHANGED <<syncVars, otherVars>>

\* the return of send_message_to_log_channel to its caller: send_large_log goes
\* on to the header, the loop of send_logs_to_telegram sleeps 15 s and takes
\* the next chunk, and after the last chunk the cycle ends
Advance ==
    IF job.kind = "body"
    THEN /\ job' = HeaderJob(job, logged_message)
         /\ pc' = "send"
         /\ idx' = idx
    ELSE /\ idx' = idx + 1
         /\ IF idx + 1 <= Len(logs_to_send)
            THEN job' = JobFor(logs_to_send[idx + 1]) /\ pc' = "send"
            ELSE job' = NoJob /\ pc' = "idle"

\* log_sender.message(logs_chat_id, text=''): no branch of message() sends
\* anything and it returns None
SendNothing ==
    /\ pc = "send"
    /\ job.text = <<>>
    /\ logged_message' = NoMessage
    /\ pc' = "mark"
    /\ UNCHANGED <<logs, nextLogId, log_entries, logs_to_send, idx, job,
                   log_ids_to_delete, response, chanNext, clock, sent, backups,
                   notified, faults, cycleStart, cycleFaults>>
    /\ UNCHANGED <<syncVars, otherVars>>

\* the log channel accepts the text: message() returns the platform's message
SendOk ==
    /\ pc = "send"
    /\ job.text # <<>>
    /\ ~PlatformRejects(job.text)
    /\ logged_message' = [message_id |-> chanNext, date |-> clock]
    /\ sent' = Append(sent, [message_id |-> chanNext, date |-> clock, text |-> job.text,
                             reply_id |-> job.reply_id, ids |-> job.ids, kind |-> job.kind])
    /\ chanNext' = chanNext + 1
    /\ clock' = clock + 1
    /\ pc' = "mark"
    /\ UNCHANGED <<logs, nextLogId, log_entries, logs_to_send, idx, job,
                   log_ids_to_delete, response, backups, notified, faults, cycleStart, cycleFaults>>
    /\ UNCHANGED <<syncVars, otherVars>>

\* the log channel refuses the text as too long: message() raises, the cycle
\* ends in run_task's except clause
SendTooLong ==
    /\ pc = "send"
    /\ job.text # <<>>
    /\ PlatformRejects(job.text)
    /\ pc' = "crashed"
    /\ UNCHANGED <<logs, nextLogId, log_entries, logs_to_send, idx, job, logged_message,
                   log_ids_to_delete, response, chanNext, clock, sent, backups,
                   notified, faults, cycleStart, cycleFaults>>
    /\ UNCHANGED <<syncVars, otherVars>>

\* a transient delivery error: message() sleeps and calls itself again
SendTransient ==
    /\ pc \in {"send", "archive", "notify"}
    /\ faults < MaxFaults
    /\ faults' = faults + 1
    /\ UNCHANGED <<logs, nextLogId, pc, log_entries, logs_to_send, idx, job,
                   logged_message, log_ids_to_delete, response, chanNext, clock, sent,
                   backups, notified, cycleStart, cycleFaults>>
    /\ UNCHANGED <<syncVars, otherVars>>

\* a benign error ('Query is too old', 'exactly the same'): message() returns None
SendBenign_returns_message ==
    /\ pc = "send"
    /\ job.text # <<>>
    /\ faults < MaxFaults
    /\ faults' = faults + 1
    /\ logged_message' = [message_id |-> chanNext, date |-> clock]
    /\ pc' = "mark"
    /\ UNCHANGED <<logs, nextLogId, log_entries, logs_to_send, idx, job,
                   log_ids_to_delete, response, chanNext, clock, sent, backups,
                   notified, cycleStart, cycleFaults>>
    /\ UNCHANGED <<syncVars, otherVars>>

SendBenign ==
    /\ pc = "send"
    /\ job.text # <<>>
    /\ faults < MaxFaults
    /\ faults' = faults + 1
    /\ logged_message' = NoMessage
    /\ pc' = "mark"
    /\ UNCHANGED <<logs, nextLogId, log_entries, logs_to_send, idx, job,
                   log_ids_to_delete, response, chanNext, clock, sent, backups,
                   notified, cycleStart, cycleFaults>>
    /\ UNCHANGED <<syncVars, otherVars>>

\* any other delivery error: message() raises it (raises=True)
SendFatal ==
    /\ pc = "send"
    /\ job.text # <<>>
    /\ faults < MaxFaults
    /\ faults' = faults + 1
    /\ pc' = "crashed"
    /\ UNCHANGED <<logs, nextLogId, log_entries, logs_to_send, idx, job, logged_message,
                   log_ids_to_delete, response, chanNext, clock, sent, backups,
                   notified, cycleStart, cycleFaults>>
    /\ UNCHANGED <<syncVars, otherVars>>

\* send_message_to_log_channel: MARK_POSTED and the archive trigger
NeedsArchive(message) ==
    message # NoMessage /\ message.message_id % LOGS_CUTOFF = 0

Mark ==
    /\ pc = "mark"
    /\ logs' = IF logged_message # NoMessage
               THEN update_posted_logs(logs, job.ids, logged_message.message_id,
                                       logged_message.date)
               ELSE logs
    /\ IF NeedsArchive(logged_message)
       THEN pc' = "archive" /\ UNCHANGED <<job, idx>>
       ELSE Advance
    /\ UNCHANGED <<nextLogId, log_entries, logs_to_send, logged_message,
                   log_ids_to_delete, response, chanNext, clock, sent, backups,
                   notified, faults, cycleStart, cycleFaults>>
    /\ UNCHANGED <<syncVars, otherVars>>

\* the backup blob of the archive step: the texts of the posted rows, by id
Backup(posted_logs) ==
    [start_date |-> posted_logs[1].post_date,
     end_date |-> posted_logs[Len(posted_logs)].post_date,
     data |-> [k \in DOMAIN posted_logs |-> posted_logs[k].text],
     ids |-> [k \in DOMAIN posted_logs |-> posted_logs[k].id]]

\* get_posted_logs and the upload of the blob to the archive channel
ArchiveUpload(outcome) ==
    /\ pc = "archive"
    /\ LET posted_logs == get_posted_logs(logs) IN
       IF posted_logs = <<>>
       THEN /\ outcome = "ok"
            /\ Advance
            /\ UNCHANGED <<log_ids_to_delete, response, backups, faults>>
       ELSE /\ log_ids_to_delete' = [k \in DOMAIN posted_logs |-> posted_logs[k].id]
            /\ CASE outcome = "ok" ->
                      /\ response' = [message_id |-> Len(backups) + 1, date |-> clock]
                      /\ backups' = Append(backups, Backup(posted_logs))
                      /\ pc' = "remove"
                      /\ UNCHANGED faults
                 [] outcome = "none" ->
                      /\ faults < MaxFaults
                      /\ faults' = faults + 1
                      /\ response' = NoMessage
                      /\ pc' = "remove"
                      /\ UNCHANGED backups
                 [] outcome = "raise" ->
                      /\ faults < MaxFaults
                      /\ faults' = faults + 1
                      /\ pc' = "crashed"
                      /\ UNCHANGED <<response, backups>>
            /\ UNCHANGED <<job, idx>>
    /\ UNCHANGED <<logs, nextLogId, log_entries, logs_to_send, logged_message,
                   chanNext, clock, sent, notified, cycleStart, cycleFaults>>
    /\ UNCHANGED <<syncVars, otherVars>>

ArchiveUploadOk == ArchiveUpload("ok")
ArchiveUploadNone == ArchiveUpload("none")
ArchiveUploadRaise == ArchiveUpload("raise")

\* remove_posted_logs(log_ids_to_delete), run whatever the upload returned
ArchiveRemove ==
    /\ pc = "remove"
    /\ logs' = remove_posted_logs(logs, log_ids_to_delete)
    /\ pc' = "notify"
    /\ UNCHANGED <<nextLogId, log_entries, logs_to_send, idx, job, logged_message,
                   log_ids_to_delete, response, chanNext, clock, sent, backups,
                   notified, faults, cycleStart, cycleFaults>>
    /\ UNCHANGED <<syncVars, otherVars>>

\* the notice to the operator chat about the uploaded backup
ArchiveNotify(outcome) ==
    /\ pc = "notify"
    /\ CASE outcome = "ok" ->
              /\ response # NoMessage
              /\ notified' = notified + 1
              /\ Advance
              /\ UNCHANGED faults
         [] outcome = "none" ->
              /\ response # NoMessage
              /\ faults < MaxFaults
              /\ faults' = faults + 1
              /\ Advance
              /\ UNCHANGED notified
         [] outcome = "raise" ->
              /\ response # NoMessage
              /\ faults < MaxFaults
              /\ faults' = faults + 1
              /\ pc' = "crashed"
              /\ UNCHANGED <<notified, job, idx>>
    /\ UNCHANGED <<logs, nextLogId, log_entries, logs_to_send, logged_message,
                   log_ids_to_delete, response, chanNext, clock, sent, backups,
                   cycleStart, cycleFaults>>
    /\ UNCHANGED <<syncVars, otherVars>>

ArchiveNotifyOk == ArchiveNotify("ok")
ArchiveNotifyNone == ArchiveNotify("none")
ArchiveNotifyRaise == ArchiveNotify("raise")

\* channel_link(response) with response None: AttributeError, no notice is sent
ArchiveLinkFails ==
    /\ pc = "notify"
    /\ response = NoMessage
    /\ pc' = "crashed"
    /\ UNCHANGED <<logs, nextLogId, log_entries, logs_to_send, idx, job, logged_message,
                   log_ids_to_delete, response, chanNext, clock, sent, backups,
                   notified, faults, cycleStart, cycleFaults>>
    /\ UNCHANGED <<syncVars, otherVars>>

\* run_task: the exception is caught, handle_error reports it, and after the
\* 15 s sleep the loop calls logger_queue_handler again
Restart ==
    /\ pc = "crashed"
    /\ pc' = "idle"
    /\ job' = NoJob
    /\ UNCHANGED <<logs, nextLogId, log_entries, logs_to_send, idx, logged_message,
                   log_ids_to_delete, response, chanNext, clock, sent, backups,
                   notified, faults, cycleStart, cycleFaults>>
    /\ UNCHANGED <<syncVars, otherVars>>

FlushStep ==
    \/ FlushFetch
    \/ SendNothing
    \/ SendOk
    \/ SendTooLong
    \/ Mark
    \/ ArchiveUploadOk
    \/ ArchiveRemove
    \/ ArchiveNotifyOk
    \/ ArchiveLinkFails
    \/ Restart

FaultStep ==
    \/ SendTransient
    \/ SendBenign
    \/ SendFatal
    \/ ArchiveUploadNone
    \/ ArchiveUploadRaise
    \/ ArchiveNotifyNone
    \/ ArchiveNotifyRaise

NextLog == InsertLog \/ FlushStep \/ FaultStep


\* ------------------------------------------------------------------------
\* Transactional store: database/models.py, database/user_repository.py
\* ------------------------------------------------------------------------
\* None in a text column
PyNone == "<None>"

UserIds == {1, 2}
ChatIds == {7}
FullNames == {"Ann"}
Usernames == {PyNone, "ann"}
Languages == {"en"}
DateValues == {1}
GenderIds == {1}

\* a number held as an int, and the same number held as text
PyInt(n) == [ty |-> "int", v |-> n]
PyStr(n) == [ty |-> "str", v |-> n]

\* max(column) or 1, then + 1: create_user, get_or_create_user_pregnancy
RECURSIVE MaxOf(_)
MaxOf(S) ==
    IF S = {} THEN None
    ELSE LET x == CHOOSE y \in S : TRUE
             m == MaxOf(S \ {x})
         IN  IF x > m THEN x ELSE m

NextRowId(S) == (IF MaxOf(S) = None THEN 1 ELSE MaxOf(S)) + 1

get_users_to_backup(rows) == {u \in rows : u.needs_backup_update}

create_user(rows, id, full_name, username, language, reaction) ==
    rows \cup {[id |-> id, full_name |-> full_name, username |-> username,
                language |-> language, reaction |-> reaction,
                google_row_id |-> NextRowId({u.google_row_id : u \in rows}),
                needs_backup_update |-> TRUE]}

update_user_username_and_reaction(rows, id, username, reaction) ==
    {IF u.id = id
     THEN [u EXCEPT !.username = username, !.reaction = reaction,
                    !.needs_backup_update = TRUE]
     ELSE u : u \in rows}

update_user_personal_data(rows, id, full_name, username) ==
    {IF u.id = id
     THEN [u EXCEPT !.full_name = full_name, !.username = username,
                    !.needs_backup_update = TRUE]
     ELSE u : u \in rows}

update_user_reaction(rows, id, reaction) ==
    {IF u.id = id
     THEN [u EXCEPT !.reaction = reaction, !.needs_backup_update = TRUE]
     ELSE u : u \in rows}

update_user_language(rows, id, language) ==
    {IF u.id = id
     THEN [u EXCEPT !.language = language, !.needs_backup_update = TRUE]
     ELSE u : u \in rows}

mark_user_as_synced_all(rows, id) ==
    {[u EXCEPT !.needs_backup_update = FALSE] : u \in rows}
mark_user_as_synced(rows, id) ==
    {IF u.id = id THEN [u EXCEPT !.needs_backup_update = FALSE] ELSE u : u \in rows}

\* sync_users: existing rows with an incoming id take the incoming fields, the
\* other incoming records are added, one commit
sync_users_mirror(rows, incoming) == {incoming[k] : k \in DOMAIN incoming}
sync_users(rows, incoming) ==
    LET new_users_dict(id) ==
            incoming[CHOOSE k \in DOMAIN incoming :
                        /\ incoming[k].id = id
                        /\ \A j \in DOMAIN incoming : incoming[j].id = id => j <= k]
        in_dict(id) == \E k \in DOMAIN incoming : incoming[k].id = id
        existing_user_ids == {u.id : u \in {x \in rows : in_dict(x.id)}}
        updated ==
            {IF in_dict(u.id)
             THEN [u EXCEPT !.full_name = new_users_dict(u.id).full_name,
                            !.username = new_users_dict(u.id).username,
                            !.language = new_users_dict(u.id).language,
                            !.reaction = new_users_dict(u.id).reaction,
                            !.google_row_id = new_users_dict(u.id).google_row_id]
             ELSE u : u \in rows}
        users_to_add ==
            {new_users_dict(incoming[k].id) :
                k \in {j \in DOMAIN incoming : incoming[j].id \notin existing_user_ids}}
    IN  updated \cup users_to_add

get_or_create_user_pregnancy(rows, user_id, chat_id) ==
    IF \E p \in rows : p.user_id = user_id /\ p.chat_id = PyInt(chat_id)
    THEN rows
    ELSE rows \cup {[id |-> NextRowId({p.id : p \in rows}), user_id |-> user_id,
                     chat_id |-> PyInt(chat_id), gender |-> None, pdr_date |-> None,
                     period_date |-> None, needs_backup_update |-> TRUE]}

get_pregnancies_to_backup(rows) == {p \in rows : p.needs_backup_update}

update_user_period_date(rows, id, period_date) ==
    {IF p.id = id
     THEN [p EXCEPT !.period_date = period_date, !.needs_backup_update = TRUE]
     ELSE p : p \in rows}

update_user_pdr_date(rows, id, pdr_date) ==
    {IF p.id = id
     THEN [p EXCEPT !.pdr_date = pdr_date, !.needs_backup_update = TRUE]
     ELSE p : p \in rows}

update_user_baby_gender(rows, id, gender_id) ==
    {IF p.id = id
     THEN [p EXCEPT !.gender = gender_id, !.needs_backup_update = TRUE]
     ELSE p : p \in rows}

mark_pregnancy_as_synced(rows, id) ==
    {IF p.id = id THEN [p EXCEPT !.needs_backup_update = FALSE] ELSE p : p \in rows}

\* the key of sync_pregnancies: the tuple (user_id, chat_id)
pregnancy_key(p) == <<p.user_id, p.chat_id>>

\* sync_pregnancies with the updates of existing rows kept when the commit fails
sync_pregnancies_keeps_updates(rows, incoming, user_rows, binds_text) ==
    LET in_dict(key) == \E k \in DOMAIN incoming : pregnancy_key(incoming[k]) = key
        new_pregnancies_dict(key) ==
            incoming[CHOOSE k \in DOMAIN incoming :
                        /\ pregnancy_key(incoming[k]) = key
                        /\ \A j \in DOMAIN incoming :
                              pregnancy_key(incoming[j]) = key => j <= k]
        updated ==
            {IF in_dict(pregnancy_key(p))
             THEN [p EXCEPT !.pdr_date = new_pregnancies_dict(pregnancy_key(p)).pdr_date,
                            !.period_date = new_pregnancies_dict(pregnancy_key(p)).period_date,
                            !.gender = new_pregnancies_dict(pregnancy_key(p)).gender]
             ELSE p : p \in rows}
        existing_pregnancy_ids == {pregnancy_key(p) : p \in {x \in rows : in_dict(pregnancy_key(x))}}
        pregnancies_to_add ==
            {new_pregnancies_dict(pregnancy_key(incoming[k])) :
                k \in {j \in DOMAIN incoming :
                          pregnancy_key(incoming[j]) \notin existing_pregnancy_ids}}
        stored(n) == [n EXCEPT !.chat_id = PyInt(n.chat_id.v)]
        commit_fails ==
            \/ \E n \in pregnancies_to_add : n.chat_id.ty = "str" /\ ~binds_text
            \/ \E n \in pregnancies_to_add : \E p \in rows : p.id = n.id
            \/ \E n \in pregnancies_to_add : \E m \in pregnancies_to_add : n # m /\ n.id = m.id
            \/ \E n \in pregnancies_to_add : \A u \in user_rows : u.id # n.user_id
    IN  IF commit_fails THEN updated
        ELSE updated \cup {stored(n) : n \in pregnancies_to_add}

\* sync_pregnancies: existing rows with an incoming key take the incoming dates
\* and gender, the other incoming records are added, one commit.  The commit
\* fails, and the transaction leaves the table as it was, when an added record
\* repeats a primary key, names a user that is not in the user table, or
\* holds a text chat_id that the driver does not bind to the integer column
\* (binds_text says whether it does).
sync_pregnancies(rows, incoming, user_rows, binds_text) ==
    LET in_dict(key) == \E k \in DOMAIN incoming : pregnancy_key(incoming[k]) = key
        new_pregnancies_dict(key) ==
            incoming[CHOOSE k \in DOMAIN incoming :
                        /\ pregnancy_key(incoming[k]) = key
                        /\ \A j \in DOMAIN incoming :
                              pregnancy_key(incoming[j]) = key => j <= k]
        updated ==
            {IF in_dict(pregnancy_key(p))
             THEN [p EXCEPT !.pdr_date = new_pregnancies_dict(pregnancy_key(p)).pdr_date,
                            !.period_date = new_pregnancies_dict(pregnancy_key(p)).period_date,
                            !.gender = new_pregnancies_dict(pregnancy_key(p)).gender]
             ELSE p : p \in rows}
        existing_pregnancy_ids == {pregnancy_key(p) : p \in {x \in rows : in_dict(pregnancy_key(x))}}
        pregnancies_to_add ==
            {new_pregnancies_dict(pregnancy_key(incoming[k])) :
                k \in {j \in DOMAIN incoming :
                          pregnancy_key(incoming[j]) \notin existing_pregnancy_ids}}
        stored(n) == [n EXCEPT !.chat_id = PyInt(n.chat_id.v)]
        commit_fails ==
            \/ \E n \in pregnancies_to_add : n.chat_id.ty = "str" /\ ~binds_text
            \/ \E n \in pregnancies_to_add : \E p \in rows : p.id = n.id
            \/ \E n \in pregnancies_to_add : \E m \in pregnancies_to_add : n # m /\ n.id = m.id
            \/ \E n \in pregnancies_to_add : \A u \in user_rows : u.id # n.user_id
    IN  IF commit_fails THEN rows
        ELSE updated \cup {stored(n) : n \in pregnancies_to_add}

\* ------------------------------------------------------------------------
\* Spreadsheet rows written by the push: services/Users.py, back_up_users
\* ------------------------------------------------------------------------
ADD_ROWS == 1000
GridStarts == {1, 10}

IntText(n) == <<"1", "2", "3", "4", "5", "6", "7", "8", "9">>[n]
DateText(d) == IF d = None THEN "None" ELSE <<"2025-01-01 00:00:00">>[d]
GenderText(g) == IF g = None THEN "None" ELSE IntText(g)
ReactionText(r) == IF r THEN "[v]" ELSE "[o]"

\* user_range[0..4].value of the users loop
UserCells(u) ==
    <<IntText(u.id), u.full_name,
      IF u.username = PyNone \/ u.username = "" THEN "None" ELSE u.username,
      u.language, ReactionText(u.reaction)>>

\* date_range[0..3].value of the dates loop
DateCells(p) ==
    <<IntText(p.user_id), IntText(p.chat_id.v), DateText(p.pdr_date),
      DateText(p.period_date)>>

\* worksheet.update_cells on the cells of one row
update_cells(sheet, row, cells) ==
    [r \in (DOMAIN sheet) \cup {row} |-> IF r = row THEN cells ELSE sheet[r]]

EmptySheet == [r \in {} |-> <<>>]

\* the orders in which a SELECT without ORDER BY may return a set of rows
Orders(S) ==
    {q \in [1..Cardinality(S) -> S] : \A i, j \in 1..Cardinality(S) : q[i] = q[j] => i = j}

\* ------------------------------------------------------------------------
\* Actions of the Sync Engine
\* ------------------------------------------------------------------------
NoRun == [clean |-> FALSE, over |-> FALSE, users |-> {}, dates |-> {}]
pullVars == <<pull, incomingUsers, incomingDates, pre>>
pushVars == <<spc, table, queue, qi>>
sheetVars == <<usersSheet, datesSheet, usersGrid, datesGrid>>

InitSync ==
    /\ users = {}
    /\ pregnancies = {}
    /\ usersSheet = EmptySheet
    /\ datesSheet = EmptySheet
    /\ usersGrid \in GridStarts
    /\ datesGrid = 1
    /\ spc = "idle"
    /\ table = "users"
    /\ queue = <<>>
    /\ qi = 0
    /\ run = NoRun
    /\ mutations = 0
    /\ sfaults = 0
    /\ pull = "off"
    /\ incomingUsers = <<>>
    /\ incomingDates = <<>>
    /\ pre = [users |-> {}, pregnancies |-> {}]

\* the Sync Engine at rest
SyncOff ==
    /\ users = {}
    /\ pregnancies = {}
    /\ usersSheet = EmptySheet
    /\ datesSheet = EmptySheet
    /\ usersGrid = 1
    /\ datesGrid = 1
    /\ spc = "idle"
    /\ table = "users"
    /\ queue = <<>>
    /\ qi = 0
    /\ run = NoRun
    /\ mutations = 0
    /\ sfaults = 0
    /\ pull = "off"
    /\ incomingUsers = <<>>
    /\ incomingDates = <<>>
    /\ pre = [users |-> {}, pregnancies |-> {}]

\* a handler's mutating call on UserRepository
MutateUsers(rows) ==
    /\ mutations < MaxMutations
    /\ mutations' = mutations + 1
    /\ users' = rows
    /\ run' = NoRun
    /\ UNCHANGED <<pregnancies, sheetVars, pushVars, sfaults, pullVars, logVars, otherVars>>

CreateUser ==
    \E id \in UserIds : \E full_name \in FullNames : \E username \in Usernames :
    \E reaction \in BOOLEAN :
        /\ \A u \in users : u.id # id
        /\ MutateUsers(create_user(users, id, full_name, username, "ru", reaction))

UpdateUserUsernameAndReaction ==
    \E u \in users : \E username \in Usernames : \E reaction \in BOOLEAN :
        MutateUsers(update_user_username_and_reaction(users, u.id, username, reaction))

UpdateUserPersonalData ==
    \E u \in users : \E full_name \in FullNames : \E username \in Usernames :
        MutateUsers(update_user_personal_data(users, u.id, full_name, username))

UpdateUserReaction ==
    \E u \in users : \E reaction \in BOOLEAN :
        MutateUsers(update_user_reaction(users, u.id, reaction))

UpdateUserLanguage ==
    \E u \in users : \E language \in Languages :
        MutateUsers(update_user_language(users, u.id, language))

\* a handler's mutating call on UserPregnancyRepository
MutatePregnancies(rows) ==
    /\ mutations < MaxMutations
    /\ mutations' = mutations + 1
    /\ pregnancies' = rows
    /\ run' = NoRun
    /\ UNCHANGED <<users, sheetVars, pushVars, sfaults, pullVars, logVars, otherVars>>

GetOrCreateUserPregnancy ==
    \E u \in users : \E chat_id \in ChatIds :
        /\ \A p \in pregnancies : ~(p.user_id = u.id /\ p.chat_id = PyInt(chat_id))
        /\ MutatePregnancies(get_or_create_user_pregnancy(pregnancies, u.id, chat_id))

UpdateUserPeriodDate ==
    \E p \in pregnancies : \E d \in DateValues :
        MutatePregnancies(update_user_period_date(pregnancies, p.id, d))

UpdateUserPdrDate ==
    \E p \in pregnancies : \E d \in DateValues :
        MutatePregnancies(update_user_pdr_date(pregnancies, p.id, d))

UpdateUserBabyGender ==
    \E p \in pregnancies : \E g \in GenderIds :
        MutatePregnancies(update_user_baby_gender(pregnancies, p.id, g))

\* back_up_users: get_users_to_backup, and the start of the users loop
PushUsersFetch ==
    /\ spc = "idle"
    /\ table' = "users"
    /\ \E q \in Orders(get_users_to_backup(users)) :
          /\ queue' = q
          /\ run' = [clean |-> TRUE, over |-> FALSE,
                     users |-> {q[k].id : k \in DOMAIN q}, dates |-> {}]
          /\ IF q = <<>>
             THEN qi' = 0 /\ spc' = "dates"
             ELSE qi' = 1 /\ spc' = "range"
    /\ UNCHANGED <<users, pregnancies, sheetVars, mutations, sfaults, pullVars, logVars, otherVars>>

\* back_up_users: get_dates_to_backup, and the start of the dates loop
PushDatesFetch ==
    /\ spc = "dates"
    /\ table' = "dates"
    /\ \E q \in Orders(get_pregnancies_to_backup(pregnancies)) :
          /\ queue' = q
          /\ run' = [run EXCEPT !.over = (q = <<>>), !.dates = {q[k].id : k \in DOMAIN q}]
          /\ IF q = <<>>
             THEN qi' = 0 /\ spc' = "idle"
             ELSE qi' = 1 /\ spc' = "range"
    /\ UNCHANGED <<users, pregnancies, sheetVars, mutations, sfaults, pullVars, logVars, otherVars>>

\* the row the current record is written to: user.google_row_id, date.id
RowPointer == IF table = "users" THEN queue[qi].google_row_id ELSE queue[qi].id
Grid == IF table = "users" THEN usersGrid ELSE datesGrid

\* worksheet.range(sheet_range): a row past the last one 'exceeds grid limits'
PushRange ==
    /\ spc = "range"
    /\ spc' = IF RowPointer > Grid THEN "grow" ELSE "write"
    /\ UNCHANGED <<users, pregnancies, sheetVars, table, queue, qi, run, mutations,
                   sfaults, pullVars, logVars, otherVars>>

\* the retry without the growth
PushAddRows_no_growth ==
    /\ spc = "grow"
    /\ spc' = "retry"
    /\ UNCHANGED <<users, pregnancies, sheetVars, table, queue, qi, run,
                   mutations, sfaults, pullVars, logVars, otherVars>>

\* worksheet.add_rows(1000)
PushAddRows ==
    /\ spc = "grow"
    /\ IF table = "users"
       THEN usersGrid' = usersGrid + ADD_ROWS /\ UNCHANGED datesGrid
       ELSE datesGrid' = datesGrid + ADD_ROWS /\ UNCHANGED usersGrid
    /\ spc' = "retry"
    /\ UNCHANGED <<users, pregnancies, usersSheet, datesSheet, table, queue, qi, run,
                   mutations, sfaults, pullVars, logVars, otherVars>>

\* the second worksheet.range(sheet_range), outside any try
PushRetryRange ==
    /\ spc = "retry"
    /\ IF RowPointer > Grid
       THEN spc' = "crashed" /\ run' = NoRun
       ELSE spc' = "write" /\ UNCHANGED run
    /\ UNCHANGED <<users, pregnancies, sheetVars, table, queue, qi, mutations,
                   sfaults, pullVars, logVars, otherVars>>

\* worksheet.update_cells with the values of the loaded record
PushUpdateCells ==
    /\ spc = "write"
    /\ IF table = "users"
       THEN /\ usersSheet' = update_cells(usersSheet, RowPointer, UserCells(queue[qi]))
            /\ UNCHANGED datesSheet
       ELSE /\ datesSheet' = update_cells(datesSheet, RowPointer, DateCells(queue[qi]))
            /\ UNCHANGED usersSheet
    /\ spc' = "mark"
    /\ UNCHANGED <<users, pregnancies, usersGrid, datesGrid, table, queue, qi, run,
                   mutations, sfaults, pullVars, logVars, otherVars>>

\* mark_user_as_synced / mark_date_as_synced, and the next turn of the loop
PushMark ==
    /\ spc = "mark"
    /\ IF table = "users"
       THEN users' = mark_user_as_synced(users, queue[qi].id) /\ UNCHANGED pregnancies
       ELSE pregnancies' = mark_pregnancy_as_synced(pregnancies, queue[qi].id)
            /\ UNCHANGED users
    /\ IF qi < Len(queue)
       THEN qi' = qi + 1 /\ spc' = "range" /\ UNCHANGED run
       ELSE /\ qi' = qi
            /\ IF table = "users"
               THEN spc' = "dates" /\ UNCHANGED run
               ELSE spc' = "idle" /\ run' = [run EXCEPT !.over = TRUE]
    /\ UNCHANGED <<sheetVars, table, queue, mutations, sfaults, pullVars, logVars, otherVars>>

\* a spreadsheet call fails with another error: back_up_users raises
PushFails(at) ==
    /\ spc \in at
    /\ sfaults < MaxFaults
    /\ sfaults' = sfaults + 1
    /\ spc' = "crashed"
    /\ run' = NoRun
    /\ UNCHANGED <<users, pregnancies, sheetVars, table, queue, qi, mutations,
                   pullVars, logVars, otherVars>>

PushRangeFails == PushFails({"range", "retry"})
PushAddRowsFails == PushFails({"grow"})
PushUpdateCellsFails == PushFails({"write"})

\* run_task: the exception is reported, and scheduled_actions is called again
PushRestart ==
    /\ spc = "crashed"
    /\ spc' = "idle"
    /\ UNCHANGED <<users, pregnancies, sheetVars, table, queue, qi, run, mutations,
                   sfaults, pullVars, logVars, otherVars>>

MutationStep ==
    \/ CreateUser
    \/ UpdateUserUsernameAndReaction
    \/ UpdateUserPersonalData
    \/ UpdateUserReaction
    \/ UpdateUserLanguage
    \/ GetOrCreateUserPregnancy
    \/ UpdateUserPeriodDate
    \/ UpdateUserPdrDate
    \/ UpdateUserBabyGender

PushStep ==
    \/ PushUsersFetch
    \/ PushDatesFetch
    \/ PushRange
    \/ PushAddRows
    \/ PushRetryRange
    \/ PushUpdateCells
    \/ PushMark
    \/ PushRestart

PushFaultStep ==
    \/ PushRangeFails
    \/ PushAddRowsFails
    \/ PushUpdateCellsFails

LogIdle ==
    /\ logs = {}
    /\ nextLogId = 1
    /\ pc = "idle"
    /\ log_entries = <<>>
    /\ logs_to_send = <<>>
    /\ idx = 0
    /\ job = NoJob
    /\ logged_message = NoMessage
    /\ log_ids_to_delete = <<>>
    /\ response = NoMessage
    /\ chanNext = 1
    /\ clock = 1
    /\ sent = <<>>
    /\ backups = <<>>
    /\ notified = 0
    /\ faults = 0
    /\ cycleStart = 0
    /\ cycleFaults = 0

NextSync == MutationStep \/ PushStep \/ PushFaultStep


\* ------------------------------------------------------------------------
\* The pull on given tables and given incoming lists
\* ------------------------------------------------------------------------
\* tables the handlers can have built: row pointers follow the creation order
StoredUser(id, username, dirty) ==
    [id |-> id, full_name |-> "Ann", username |-> username, language |-> "ru",
     reaction |-> FALSE, google_row_id |-> id + 1, needs_backup_update |-> dirty]

UserTables ==
    {{StoredUser(id, "ann", d[id]) : id \in S} : S \in SUBSET UserIds, d \in [UserIds -> BOOLEAN]}

StoredPregnancy(user_id, row, dirty) ==
    [id |-> row, user_id |-> user_id, chat_id |-> PyInt(7), pdr_date |-> 1,
     period_date |-> None, gender |-> 1, needs_backup_update |-> dirty]

PregnancyTables(user_rows) ==
    {{StoredPregnancy(id, IF \A j \in S : id <= j THEN 2 ELSE 3, d[id]) : id \in S} :
        S \in SUBSET {u.id : u \in user_rows}, d \in [UserIds -> BOOLEAN]}

\* lists generate_users and generate_dates can return: one record per data row,
\* the row number as google_row_id / id
IncomingUserLists ==
    {[k \in DOMAIN q |->
        [id |-> q[k], full_name |-> "Ann", username |-> PyNone, language |-> "en",
         reaction |-> TRUE, google_row_id |-> k + 1, needs_backup_update |-> FALSE]] :
        q \in UNION {Orders(S) : S \in SUBSET UserIds}}

IncomingDateLists ==
    {[k \in DOMAIN q |->
        [id |-> k + 1, user_id |-> q[k], chat_id |-> ty[q[k]], pdr_date |-> None,
         period_date |-> 1, gender |-> None, needs_backup_update |-> FALSE]] :
        q \in UNION {Orders(S) : S \in SUBSET UserIds},
        ty \in [UserIds -> {PyInt(7), PyStr(7)}]}

InitPull ==
    /\ users \in UserTables
    /\ pregnancies \in PregnancyTables(users)
    /\ incomingUsers \in IncomingUserLists
    /\ incomingDates \in IncomingDateLists
    /\ pull = "users"
    /\ pre = [users |-> users, pregnancies |-> pregnancies]
    /\ usersSheet = EmptySheet
    /\ datesSheet = EmptySheet
    /\ usersGrid = 1
    /\ datesGrid = 1
    /\ spc = "idle"
    /\ table = "users"
    /\ queue = <<>>
    /\ qi = 0
    /\ run = NoRun
    /\ mutations = 0
    /\ sfaults = 0

\* update_users_in_database: db_users.sync_users(users)
SyncUsers ==
    /\ pull = "users"
    /\ users' = sync_users(users, incomingUsers)
    /\ pull' = "dates"
    /\ UNCHANGED <<pregnancies, sheetVars, pushVars, run, mutations, sfaults,
                   incomingUsers, incomingDates, pre, logVars, otherVars>>

\* update_users_in_database: db_dates.sync_dates(dates)
SyncPregnancies ==
    /\ pull = "dates"
    /\ \E binds_text \in BOOLEAN :
          pregnancies' = sync_pregnancies(pregnancies, incomingDates, users, binds_text)
    /\ pull' = "done"
    /\ UNCHANGED <<users, sheetVars, pushVars, run, mutations, sfaults,
                   incomingUsers, incomingDates, pre, logVars, otherVars>>

NextPull == SyncUsers \/ SyncPregnancies



\* ------------------------------------------------------------------------
\* Update handlers: services/Users.py on the repositories, one step per await
\* ------------------------------------------------------------------------
CallIds == 1..MaxCalls

NoCall ==
    [op |-> "none", pc |-> "off", user_id |-> None, chat_id |-> None,
     username |-> PyNone, loaded |-> PyNone, max_id |-> None, date_id |-> None,
     dirty |-> FALSE]
NoCalls == [c \in CallIds |-> NoCall]

CallOps == {"get_user", "get_user_date", "update_user_period_date", "update_user_pdr_date"}

handlerFrame ==
    <<logVars, sheetVars, pushVars, run, mutations, sfaults, pullVars,
      tasks, delivery, scan, sched, texts>>

\* select(func.max(column)).scalar() or 1
max_id_or_1(S) == IF MaxOf(S) = None THEN 1 ELSE MaxOf(S)

\* the commit of create_user with the max_id read before
create_user_commit(rows, id, full_name, username, language, reaction, max_id) ==
    rows \cup {[id |-> id, full_name |-> full_name, username |-> username,
                language |-> language, reaction |-> reaction,
                google_row_id |-> max_id + 1, needs_backup_update |-> TRUE]}

\* the commit of get_or_create_user_pregnancy with the max_id read before
create_pregnancy_commit(rows, user_id, chat_id, max_id) ==
    rows \cup {[id |-> max_id + 1, user_id |-> user_id, chat_id |-> PyInt(chat_id),
                gender |-> None, pdr_date |-> None, period_date |-> None,
                needs_backup_update |-> TRUE]}

\* connection.add(obj) and commit() on an object loaded earlier: the UPDATE of
\* the ORM's unit of work carries the attributes whose value differs from the
\* loaded one.  before is the table at the commit and after is the table with
\* the call's assignments; needs_backup_update = True is no change on an object
\* loaded with True, so the row keeps the flag it has in the table.
commit_loaded(before, after, id, dirty) ==
    IF dirty
    THEN {IF r.id = id
          THEN [r EXCEPT !.needs_backup_update =
                            \E b \in before : b.id = id /\ b.needs_backup_update]
          ELSE r : r \in after}
    ELSE after

\* an update arrives: the handler calls get_user, get_user_date or one of the
\* two date setters
CallStart ==
    \E c \in CallIds, op \in CallOps, u \in UserIds, ch \in ChatIds, name \in Usernames :
       /\ calls[c].op = "none"
       /\ calls' = [calls EXCEPT ![c] =
             [NoCall EXCEPT !.op = op, !.user_id = u, !.chat_id = ch,
                            !.username = name,
                            !.pc = IF op \in {"get_user", "get_user_date"}
                                   THEN "get_user_by_telegram_id"
                                   ELSE "get_or_create"]]
       /\ UNCHANGED <<users, pregnancies, handlerFrame>>

\* get_user, get_user_date: db_users.get_user_by_telegram_id
GetUserByTelegramId ==
    \E c \in CallIds :
       /\ calls[c].pc = "get_user_by_telegram_id"
       /\ IF \E u \in users : u.id = calls[c].user_id
          THEN LET user == CHOOSE u \in users : u.id = calls[c].user_id IN
               calls' = [calls EXCEPT ![c].loaded = user.username,
                                      ![c].dirty = user.needs_backup_update,
                                      ![c].pc = IF calls[c].op = "get_user"
                                                THEN "personal_data"
                                                ELSE "get_or_create"]
          ELSE calls' = [calls EXCEPT ![c].pc = "create_user_max"]
       /\ UNCHANGED <<users, pregnancies, handlerFrame>>

\* create_user: select(func.max(User.google_row_id))
CreateUserMax ==
    \E c \in CallIds :
       /\ calls[c].pc = "create_user_max"
       /\ calls' = [calls EXCEPT
             ![c].max_id = max_id_or_1({u.google_row_id : u \in users}),
             ![c].pc = "create_user_commit"]
       /\ UNCHANGED <<users, pregnancies, handlerFrame>>

\* create_user: add and commit; reaction is True in get_user and False in
\* get_user_date
CreateUserCommit ==
    \E c \in CallIds :
       /\ calls[c].pc = "create_user_commit"
       /\ ~ \E u \in users : u.id = calls[c].user_id
       /\ users' = create_user_commit(users, calls[c].user_id, "Ann", calls[c].username,
                                      "en", calls[c].op = "get_user", calls[c].max_id)
       /\ calls' = [calls EXCEPT ![c].loaded = calls[c].username,
                                 ![c].dirty = TRUE,
                                 ![c].pc = IF calls[c].op = "get_user"
                                           THEN "personal_data"
                                           ELSE "get_or_create"]
       /\ UNCHANGED <<pregnancies, handlerFrame>>

\* create_user: the commit meets a row with the same primary key
CreateUserConflict ==
    \E c \in CallIds :
       /\ calls[c].pc = "create_user_commit"
       /\ \E u \in users : u.id = calls[c].user_id
       /\ calls' = [calls EXCEPT ![c].pc = "raised"]
       /\ UNCHANGED <<users, pregnancies, handlerFrame>>

\* get_user: update_user_personal_data when the loaded row differs from the
\* sender of the update
PersonalData ==
    \E c \in CallIds :
       /\ calls[c].pc = "personal_data"
       /\ users' = IF calls[c].loaded # calls[c].username
                   THEN commit_loaded(users,
                            update_user_personal_data(users, calls[c].user_id, "Ann",
                                                      calls[c].username),
                            calls[c].user_id, calls[c].dirty)
                   ELSE users
       /\ calls' = [calls EXCEPT ![c].pc = "done"]
       /\ UNCHANGED <<pregnancies, handlerFrame>>

\* get_or_create_user_pregnancy: the lookup by (user_id, chat_id); first() of
\* an unordered select
GetOrCreateLookup ==
    \E c \in CallIds :
       /\ calls[c].pc = "get_or_create"
       /\ LET found == {p \in pregnancies : /\ p.user_id = calls[c].user_id
                                            /\ p.chat_id = PyInt(calls[c].chat_id)}
          IN  IF found = {}
              THEN calls' = [calls EXCEPT ![c].pc = "pregnancy_max"]
              ELSE \E first \in found :
                      calls' = [calls EXCEPT
                          ![c].date_id = first.id,
                          ![c].dirty = first.needs_backup_update,
                          ![c].pc = IF calls[c].op = "get_user_date"
                                    THEN "done" ELSE "update_date"]
       /\ UNCHANGED <<users, pregnancies, handlerFrame>>

\* get_or_create_user_pregnancy: select(func.max(UserPregnancy.id))
PregnancyMax ==
    \E c \in CallIds :
       /\ calls[c].pc = "pregnancy_max"
       /\ calls' = [calls EXCEPT
             ![c].max_id = max_id_or_1({p.id : p \in pregnancies}),
             ![c].pc = "pregnancy_commit"]
       /\ UNCHANGED <<users, pregnancies, handlerFrame>>

\* get_or_create_user_pregnancy: add and commit
PregnancyCommit ==
    \E c \in CallIds :
       /\ calls[c].pc = "pregnancy_commit"
       /\ ~ \E p \in pregnancies : p.id = calls[c].max_id + 1
       /\ \E u \in users : u.id = calls[c].user_id
       /\ pregnancies' = create_pregnancy_commit(pregnancies, calls[c].user_id,
                                                 calls[c].chat_id, calls[c].max_id)
       /\ calls' = [calls EXCEPT
             ![c].date_id = calls[c].max_id + 1,
             ![c].dirty = TRUE,
             ![c].pc = IF calls[c].op = "get_user_date" THEN "done" ELSE "update_date"]
       /\ UNCHANGED <<users, handlerFrame>>

\* get_or_create_user_pregnancy: the commit meets a row with the same primary
\* key, or no user row for the foreign key
PregnancyConflict ==
    \E c \in CallIds :
       /\ calls[c].pc = "pregnancy_commit"
       /\ \/ \E p \in pregnancies : p.id = calls[c].max_id + 1
          \/ ~ \E u \in users : u.id = calls[c].user_id
       /\ calls' = [calls EXCEPT ![c].pc = "raised"]
       /\ UNCHANGED <<users, pregnancies, handlerFrame>>

\* UserService.update_user_period_date / update_user_pdr_date: the setter on
\* the row get_or_create returned
UpdateDate ==
    \E c \in CallIds, date \in DateValues :
       /\ calls[c].pc = "update_date"
       /\ pregnancies' =
             commit_loaded(pregnancies,
                 IF calls[c].op = "update_user_period_date"
                 THEN update_user_period_date(pregnancies, calls[c].date_id, date)
                 ELSE update_user_pdr_date(pregnancies, calls[c].date_id, date),
                 calls[c].date_id, calls[c].dirty)
       /\ calls' = [calls EXCEPT ![c].pc = "done"]
       /\ UNCHANGED <<users, handlerFrame>>

NextHandlers ==
    \/ CallStart
    \/ GetUserByTelegramId
    \/ CreateUserMax
    \/ CreateUserCommit
    \/ CreateUserConflict
    \/ PersonalData
    \/ GetOrCreateLookup
    \/ PregnancyMax
    \/ PregnancyCommit
    \/ PregnancyConflict
    \/ UpdateDate

\* ------------------------------------------------------------------------
\* Delivery: services/Telegram.py, MessageSender.message
\* ------------------------------------------------------------------------
\* 0.1 * (attempt ** (attempt - 1)): the power is an unbounded int and the
\* product converts it to a float, which raises OverflowError above the float
\* range.  143^142 < 2^1024 (143 < 2^7.2) and 144^143 = 2^572 * 3^286 > 2^1024
\* (3^286 > 2^452), so the first attempt whose sleep cannot be computed is 144.
BACKOFF_OVERFLOW == 144

\* the two sleeps of the retry branch, in the unit the code computes them in
retry_after_sleep_exact(seconds) == [unit |-> "1s", base |-> seconds, exp |-> 1]
retry_after_sleep(seconds) == [unit |-> "1s", base |-> seconds + 1, exp |-> 1]
backoff_sleep(attempt) == [unit |-> "0.1s", base |-> attempt, exp |-> attempt - 1]
NoSleep == [unit |-> "none", base |-> 0, exp |-> 0]

\* values of the arguments
NoFile == [ty |-> "none", v |-> ""]
PyBuf(v) == [ty |-> "buf", v |-> v]
NoEdit ==
    [kind |-> "none", chat_id |-> None, message_id |-> None, text |-> PyNone,
     caption |-> PyNone, reply_markup |-> "none"]
EditById == [NoEdit EXCEPT !.kind = "id", !.message_id = 5]
EditMessage(text, caption) ==
    [kind |-> "message", chat_id |-> 8, message_id |-> 5, text |-> text,
     caption |-> caption, reply_markup |-> "kb0"]
Inaccessible == [NoEdit EXCEPT !.kind = "inaccessible", !.chat_id = 8, !.message_id = 5]

DefaultArgs ==
    [chat_id |-> 7, text |-> PyNone, keyboard |-> "none", edit_message |-> NoEdit,
     file_id |-> NoFile, file |-> NoFile, files |-> <<>>, dice |-> PyNone,
     reply_id |-> None, pin_id |-> None, from_chat_id |-> None, forward_id |-> None,
     copy_id |-> None, raises |-> TRUE, attempt |-> 0]

SenderCalls ==
    {[DefaultArgs EXCEPT !.text = "t"],
     [DefaultArgs EXCEPT !.text = "t", !.keyboard = "kb", !.reply_id = 4],
     DefaultArgs,
     [DefaultArgs EXCEPT !.dice = "dice"],
     [DefaultArgs EXCEPT !.from_chat_id = 9, !.forward_id = 3],
     [DefaultArgs EXCEPT !.from_chat_id = 9, !.copy_id = 3],
     [DefaultArgs EXCEPT !.file_id = PyStr("BQA"), !.text = "t"],
     [DefaultArgs EXCEPT !.file_id = PyStr("ZZZ")],
     [DefaultArgs EXCEPT !.file = PyBuf("doc"), !.text = "t"],
     [DefaultArgs EXCEPT !.files = <<PyStr("BQA"), PyStr("AgA")>>],
     [DefaultArgs EXCEPT !.files = <<PyStr("BQA"), PyStr("ZZZ")>>],
     [DefaultArgs EXCEPT !.file_id = PyStr("BQA"), !.file = PyBuf("doc")],
     [DefaultArgs EXCEPT !.pin_id = 5],
     [DefaultArgs EXCEPT !.edit_message = EditById, !.text = "t"],
     [DefaultArgs EXCEPT !.edit_message = EditMessage("old", PyNone), !.text = "t"],
     [DefaultArgs EXCEPT !.edit_message = EditMessage("old", "cap"), !.text = "t",
                         !.keyboard = "True"],
     [DefaultArgs EXCEPT !.edit_message = EditMessage("t", PyNone), !.text = "t",
                         !.keyboard = "True"],
     [DefaultArgs EXCEPT !.edit_message = EditMessage("t", PyNone), !.text = "t",
                         !.keyboard = "kb"],
     [DefaultArgs EXCEPT !.edit_message = Inaccessible, !.text = "t"]}

RetryAfters == {1, 5}

\* process_files: file_id, file and files in one consistent form
process_files(file_id, file, files) ==
    LET with_id == IF file_id # NoFile THEN <<file_id>> \o files ELSE files
        with_file == IF file # NoFile THEN <<file>> \o with_id ELSE with_id
    IN  IF Len(with_file) = 1
        THEN IF with_file[1].ty = "str"
             THEN [file_id |-> with_file[1], file |-> NoFile, files |-> <<>>]
             ELSE [file_id |-> NoFile, file |-> with_file[1], files |-> <<>>]
        ELSE [file_id |-> NoFile, file |-> NoFile, files |-> with_file]

\* the statements before the try: the locals the branches work on
Entry(args) ==
    LET pf == process_files(args.file_id, args.file, args.files) IN
    [args EXCEPT !.file_id = pf.file_id, !.file = pf.file, !.files = pf.files,
                 !.edit_message = IF @.kind = "inaccessible" THEN NoEdit ELSE @]

\* what a branch asks of the platform; assigned tells whether the awaited
\* result is bound to response; local is what the branch does without the
\* platform
NoRequest ==
    [method |-> "none", chat_id |-> None, message_id |-> None, text |-> PyNone,
     reply_markup |-> "none", media |-> <<>>, assigned |-> FALSE, local |-> "none"]

FileIdMethods ==
    [p \in {"BAA", "BQA", "AgA", "CAA", "DQA", "CQA", "AwA", "CgA"} |->
        CASE p = "BAA" -> "send_video"
          [] p = "BQA" -> "send_document"
          [] p = "AgA" -> "send_photo"
          [] p = "CAA" -> "send_sticker"
          [] p = "DQA" -> "send_video_note"
          [] p = "CQA" -> "send_audio"
          [] p = "AwA" -> "send_voice"
          [] p = "CgA" -> "send_animation"]

MediaGroupPrefixes == {"BAA", "AgA", "CQA", "BQA"}

\* the try block: the locals after the branch taken and its request
Branch(l) ==
    LET send(method) ==
            [NoRequest EXCEPT !.method = method, !.chat_id = l.chat_id,
                              !.text = l.text, !.reply_markup = l.keyboard,
                              !.message_id = l.reply_id, !.assigned = TRUE]
        same(req) == [l |-> l, req |-> req]
    IN
    IF l.dice # PyNone THEN
        same([send("send_dice") EXCEPT !.text = l.dice])
    ELSE IF l.forward_id # None /\ l.from_chat_id # None THEN
        same([send("forward_message") EXCEPT !.text = PyNone, !.reply_markup = "none",
                                             !.message_id = l.forward_id])
    ELSE IF l.copy_id # None /\ l.from_chat_id # None THEN
        same([send("copy_message") EXCEPT !.text = PyNone, !.reply_markup = "none",
                                          !.message_id = l.copy_id])
    ELSE IF l.file_id # NoFile THEN
        IF l.file_id.v \in DOMAIN FileIdMethods
        THEN same([send(FileIdMethods[l.file_id.v]) EXCEPT
                      !.media = <<l.file_id>>,
                      !.text = IF l.file_id.v \in {"CAA", "DQA"} THEN PyNone ELSE l.text])
        ELSE same(NoRequest)
    ELSE IF l.file # NoFile THEN
        same([send("send_document") EXCEPT !.media = <<l.file>>])
    ELSE IF l.files # <<>> THEN
        IF \E k \in DOMAIN l.files :
              l.files[k].ty = "str" /\ l.files[k].v \notin MediaGroupPrefixes
        THEN same([NoRequest EXCEPT !.local = "ValueError"])
        ELSE same([send("send_media_group") EXCEPT !.reply_markup = "none",
                                                   !.media = l.files])
    ELSE IF l.pin_id # None THEN
        same([send("pin_chat_message") EXCEPT !.text = PyNone, !.reply_markup = "none",
                                              !.message_id = l.pin_id])
    ELSE IF l.edit_message.kind = "id" THEN
        same([send("edit_message_text") EXCEPT !.message_id = l.edit_message.message_id])
    ELSE IF l.edit_message.kind = "message" THEN
        LET keyboard == IF l.keyboard = "True" THEN l.edit_message.reply_markup
                        ELSE l.keyboard
            after == [l EXCEPT !.chat_id = l.edit_message.chat_id, !.keyboard = keyboard]
            edit(method) ==
                [NoRequest EXCEPT !.method = method, !.chat_id = after.chat_id,
                                  !.message_id = l.edit_message.message_id,
                                  !.text = l.text, !.reply_markup = keyboard,
                                  !.assigned = TRUE]
        IN  IF l.edit_message.text = l.text \/ l.text = PyNone
            THEN IF keyboard # l.edit_message.reply_markup
                 THEN [l |-> after,
                       req |-> [edit("edit_message_reply_markup") EXCEPT !.text = PyNone]]
                 ELSE [l |-> after, req |-> [NoRequest EXCEPT !.local = "edit_message"]]
            ELSE IF l.edit_message.caption # PyNone
                 THEN [l |-> after, req |-> edit("edit_message_caption")]
                 ELSE [l |-> after,
                       req |-> [edit("edit_message_text") EXCEPT !.assigned = FALSE]]
    ELSE IF l.text # PyNone THEN
        same(send("send_message"))
    ELSE same(NoRequest)

\* the request of a call with these arguments
Request(args) == Branch(Entry(args)).req

\* the arguments the except block passes to the nested call: the locals
Retry(args) == Branch(Entry(args)).l

\* what the platform returns for an accepted request
NoResponse == [ty |-> "None", of |-> "none", chat_id |-> None]
Accepted(req) ==
    [ty |-> CASE req.method = "pin_chat_message" -> "bool"
              [] req.method = "send_media_group" -> "list"
              [] OTHER -> "message",
     of |-> req.method, chat_id |-> req.chat_id]

\* the except block: what becomes of an error of a class
on_error_raises_first(class, raises) ==
    IF class \in {"retry_after", "transient"} THEN "retry"
    ELSE IF raises THEN "raise"
    ELSE "pass"
on_error(class, raises) ==
    IF class \in {"retry_after", "transient"} THEN "retry"
    ELSE IF class = "benign" THEN "pass"
    ELSE IF raises THEN "raise"
    ELSE "pass"

NoDelivery ==
    [status |-> "off", args |-> DefaultArgs, first |-> DefaultArgs, depth |-> 0,
     failures |-> 0, hints |-> 0, slept |-> NoSleep, hint |-> None,
     last |-> "none", exception |-> "none", result |-> NoResponse, reports |-> 0]

senderFrame == <<logVars, syncVars, calls, tasks, scan, sched, texts>>

\* a caller calls sender.message(...)
DeliveryStart ==
    /\ delivery.status = "off"
    /\ \E args \in SenderCalls, raises \in BOOLEAN :
          delivery' = [NoDelivery EXCEPT !.status = "calling",
                                         !.args = [args EXCEPT !.raises = raises],
                                         !.first = [args EXCEPT !.raises = raises],
                                         !.depth = 1]
    /\ UNCHANGED senderFrame

\* the branch makes no request: response stays None, or is edit_message itself
DeliverLocal ==
    /\ delivery.status = "calling"
    /\ Request(delivery.args).method = "none"
    /\ Request(delivery.args).local # "ValueError"
    /\ delivery' = [delivery EXCEPT
          !.status = "returned",
          !.last = "local",
          !.result = IF Request(delivery.args).local = "edit_message"
                     THEN [ty |-> "message", of |-> "edit_message",
                           chat_id |-> delivery.args.edit_message.chat_id]
                     ELSE NoResponse]
    /\ UNCHANGED senderFrame

\* the platform accepts the request
DeliverOk ==
    /\ delivery.status = "calling"
    /\ Request(delivery.args).method # "none"
    /\ delivery' = [delivery EXCEPT
          !.status = "returned",
          !.last = "ok",
          !.result = IF Request(delivery.args).assigned
                     THEN Accepted(Request(delivery.args))
                     ELSE NoResponse]
    /\ UNCHANGED senderFrame

\* 'Too Many Requests: retry after N', 'Retry in N', 'Please try again in N'
DeliverRetryAfter ==
    /\ delivery.status = "calling"
    /\ Request(delivery.args).method # "none"
    /\ delivery.hints < MaxHints
    /\ on_error("retry_after", delivery.args.raises) = "retry"
    /\ \E seconds \in RetryAfters :
          delivery' = [delivery EXCEPT
             !.last = "retry_after",
             !.hint = seconds,
             !.hints = @ + 1,
             !.slept = retry_after_sleep(seconds),
             !.args = Retry(delivery.args),
             !.depth = @ + 1]
    /\ UNCHANGED senderFrame

\* name resolution, connection, timeout, 502: attempt += 1, sleep, nested call
DeliverTransient ==
    /\ delivery.status = "calling"
    /\ Request(delivery.args).method # "none"
    /\ delivery.failures < MaxFailures
    /\ on_error("transient", delivery.args.raises) = "retry"
    /\ LET attempt == delivery.args.attempt + 1 IN
       IF attempt >= BACKOFF_OVERFLOW
       THEN delivery' = [delivery EXCEPT
               !.last = "transient",
               !.failures = @ + 1,
               !.exception = "OverflowError",
               !.status = "raised"]
       ELSE delivery' = [delivery EXCEPT
               !.last = "transient",
               !.failures = @ + 1,
               !.slept = backoff_sleep(attempt),
               !.args = [Retry(delivery.args) EXCEPT !.attempt = attempt],
               !.depth = @ + 1]
    /\ UNCHANGED senderFrame

\* the classes of error that reach the last two branches of the except block:
\* a platform error, or the ValueError of the media group branch
FailureClasses(args) ==
    IF Request(args).method # "none" THEN {"benign", "other"}
    ELSE IF Request(args).local = "ValueError" THEN {"ValueError"}
    ELSE {}

\* an error of a class the except block lets pass: response is returned as it is
DeliverPass ==
    /\ delivery.status = "calling"
    /\ \E class \in FailureClasses(delivery.args) :
          /\ on_error(class, delivery.args.raises) = "pass"
          /\ delivery' = [delivery EXCEPT !.last = class, !.status = "returned",
                                          !.result = NoResponse]
    /\ UNCHANGED senderFrame

\* elif raises: raise error
DeliverRaise ==
    /\ delivery.status = "calling"
    /\ \E class \in FailureClasses(delivery.args) :
          /\ on_error(class, delivery.args.raises) = "raise"
          /\ delivery' = [delivery EXCEPT !.last = class, !.status = "raised",
                                          !.exception = class]
    /\ UNCHANGED senderFrame

NextSender ==
    \/ DeliveryStart
    \/ DeliverLocal
    \/ DeliverOk
    \/ DeliverRetryAfter
    \/ DeliverTransient
    \/ DeliverPass
    \/ DeliverRaise

\* ------------------------------------------------------------------------
\* run_background_tasks and TaskHandlers.run_task: the supervised tasks
\* ------------------------------------------------------------------------
\* the two functions main.run_background_tasks hands to run_task
TaskNames == {"scheduled_actions", "logger_queue_handler"}

\* a task before asyncio.create_task; report is what became of the report of
\* the exception run_task caught last
NoTask == [pc |-> "off", attempt |-> 0, report |-> "none"]
NoTasks == [t \in TaskNames |-> NoTask]

taskFrame == <<logVars, syncVars, calls, delivery, scan, sched, texts>>

\* main.run_background_tasks: both tasks are created with repeating left True
run_background_tasks ==
    /\ \A t \in TaskNames : tasks[t].pc = "off"
    /\ tasks' = [t \in TaskNames |-> [NoTask EXCEPT !.pc = "call"]]
    /\ UNCHANGED taskFrame

\* while True: try: await function(**kwargs)
RunTaskCall(t) ==
    /\ tasks[t].pc = "call"
    /\ tasks' = [tasks EXCEPT ![t].pc = "running"]
    /\ UNCHANGED taskFrame

\* the function returns; repeating is True and the loop goes round
FunctionReturns(t) ==
    /\ tasks[t].pc = "running"
    /\ tasks' = [tasks EXCEPT ![t].pc = "call"]
    /\ UNCHANGED taskFrame

\* the function raises an Exception: the except clause calls handle_error,
\* which returns at once on a text of IGNORE_ERRORS_PATTERN and otherwise
\* sends the report with sender.message, raises left at True
FunctionRaises(t) ==
    /\ tasks[t].pc = "running"
    /\ \E ignored \in BOOLEAN :
         tasks' = [tasks EXCEPT ![t].pc = IF ignored THEN "sleep" ELSE "report",
                                ![t].attempt = 0,
                                ![t].report = IF ignored THEN "ignored" ELSE "none"]
    /\ UNCHANGED taskFrame

\* the report's sender.message meets a transient error without a hint:
\* attempt += 1 and the backoff sleep, whose float conversion raises
\* OverflowError from BACKOFF_OVERFLOW on; handle_error catches it
ReportTransient(t) ==
    /\ tasks[t].pc = "report"
    /\ tasks[t].attempt < MaxFailures
    /\ \E attempt \in {tasks[t].attempt + 1} :
         tasks' = IF attempt >= BACKOFF_OVERFLOW
                  THEN [tasks EXCEPT ![t].pc = "fatal", ![t].attempt = 0]
                  ELSE [tasks EXCEPT ![t].attempt = attempt]
    /\ UNCHANGED taskFrame

\* the report is accepted, or its error is benign: handle_error returns
ReportReturns(t) ==
    /\ tasks[t].pc = "report"
    /\ \E report \in {"delivered", "benign"} :
         tasks' = [tasks EXCEPT ![t].pc = "sleep", ![t].attempt = 0, ![t].report = report]
    /\ UNCHANGED taskFrame

\* update_header or the report raises: the except clause of handle_error
\* sends FATAL ERROR with raises=False
ReportRaises(t) ==
    /\ tasks[t].pc = "report"
    /\ tasks' = [tasks EXCEPT ![t].pc = "fatal", ![t].attempt = 0]
    /\ UNCHANGED taskFrame

\* the same transient error on the FATAL ERROR message: the OverflowError
\* leaves sender.message whatever raises is, then handle_error and run_task
FatalTransient(t) ==
    /\ tasks[t].pc = "fatal"
    /\ tasks[t].attempt < MaxFailures
    /\ \E attempt \in {tasks[t].attempt + 1} :
         tasks' = IF attempt >= BACKOFF_OVERFLOW
                  THEN [tasks EXCEPT ![t].pc = "ended", ![t].attempt = attempt]
                  ELSE [tasks EXCEPT ![t].attempt = attempt]
    /\ UNCHANGED taskFrame

\* the FATAL ERROR message with raises True: its error leaves handle_error
FatalReturns_raising(t) ==
    /\ tasks[t].pc = "fatal"
    /\ tasks' = [tasks EXCEPT ![t].pc = "ended", ![t].attempt = 0]
    /\ UNCHANGED taskFrame

\* the FATAL ERROR message is accepted, or its error is swallowed (raises is
\* False): message() returns None and handle_error returns
FatalReturns(t) ==
    /\ tasks[t].pc = "fatal"
    /\ \E report \in {"fatal_delivered", "fatal_swallowed"} :
         tasks' = [tasks EXCEPT ![t].pc = "sleep", ![t].attempt = 0, ![t].report = report]
    /\ UNCHANGED taskFrame

\* await asyncio.sleep(15), then the loop goes round
RunTaskSleep(t) ==
    /\ tasks[t].pc = "sleep"
    /\ tasks' = [tasks EXCEPT ![t].pc = "call", ![t].report = "none"]
    /\ UNCHANGED taskFrame

NextTasks ==
    \/ run_background_tasks
    \/ \E t \in TaskNames : RunTaskCall(t)
    \/ \E t \in TaskNames : FunctionReturns(t)
    \/ \E t \in TaskNames : FunctionRaises(t)
    \/ \E t \in TaskNames : ReportTransient(t)
    \/ \E t \in TaskNames : ReportReturns(t)
    \/ \E t \in TaskNames : ReportRaises(t)
    \/ \E t \in TaskNames : FatalTransient(t)
    \/ \E t \in TaskNames : FatalReturns(t)
    \/ \E t \in TaskNames : RunTaskSleep(t)

\* ------------------------------------------------------------------------
\* TaskHandlers.new_period_notify: the daily scan of the period dates
\* ------------------------------------------------------------------------
\* a datetime is a whole number of hours; Hours(d, h) is day d at h o'clock
Hours(d, h) == d * 24 + h

\* user_service.get_now() at the scans of two days: day 63 and day 294, 09:00
Nows == {Hours(63, 9), Hours(294, 9)}

\* UserPregnancy.period_date: none, day 7 at 00:00 and at 15:00, day 4, and
\* day 70 (ahead of the first scan)
PeriodDates == {None, Hours(7, 0), Hours(7, 15), Hours(4, 0), Hours(70, 0)}

\* UserPregnancy.pdr_date: none, day 17 and day 287
PdrDates == {None, Hours(17, 0), Hours(287, 0)}

\* the rows of user_pregnancies joined with their users, in the order of the
\* select
ScanRows == [period_date : PeriodDates, pdr_date : PdrDates]
ScanTables == UNION {[1..n -> ScanRows] : n \in 1..MaxRows}

\* get_user_period_pregnancy: the rows whose period_date is set
get_user_period_pregnancy(rows) ==
    SelectSeq(rows, LAMBDA r : r.period_date # None)

\* timedelta.days of a difference of datetimes
timedelta_days(difference) == difference \div 24

\* UserTextGenerator.get_weeks_and_days_from_date
get_weeks_and_days_from_date(now, date) ==
    LET difference == now - date
        weeks == timedelta_days(difference) \div 7
        days == timedelta_days(difference) - weeks * 7
    IN  [difference |-> difference, weeks |-> weeks, days |-> days]

\* the test of new_period_notify on one fetched row
is_notify_allowed(now, pregnancy) ==
    LET wd == get_weeks_and_days_from_date(now, pregnancy.period_date)
    IN  IF pregnancy.pdr_date = None THEN wd.weeks <= 40
        ELSE now < pregnancy.pdr_date

notifies(now, pregnancy) ==
    /\ get_weeks_and_days_from_date(now, pregnancy.period_date).days = 0
    /\ is_notify_allowed(now, pregnancy)

\* what sender.message(chat_id, text), called with raises left at True, does
\* in the end: the platform accepts the message; a benign error is swallowed
\* and None returned; any other exception leaves the call
MessageOutcomes == {"accepted", "benign", "raised"}

NoScan ==
    [pc |-> "idle", now |-> 0, pregnancies |-> <<>>, i |-> 0, runs |-> 0,
     messages |-> <<>>, accepted |-> <<>>, logs |-> <<>>]

scanFrame == <<logVars, syncVars, calls, tasks, delivery, sched, texts>>

\* scheduled_actions at 09:00 enters new_period_notify: the fetch and get_now
ScanStart ==
    /\ scan.pc = "idle"
    /\ \E now \in Nows, rows \in ScanTables :
         \E fetched \in {get_user_period_pregnancy(rows)} :
           scan' = [NoScan EXCEPT !.pc = "loop", !.now = now,
                                  !.pregnancies = fetched, !.i = 1, !.runs = 1,
                                  !.messages = [k \in 1..Len(fetched) |-> 0],
                                  !.accepted = [k \in 1..Len(fetched) |-> 0],
                                  !.logs = [k \in 1..Len(fetched) |-> 0]]
    /\ UNCHANGED scanFrame

\* one pass of the loop over a row that fails the test
ScanSkip ==
    /\ scan.pc = "loop"
    /\ scan.i <= Len(scan.pregnancies)
    /\ ~notifies(scan.now, scan.pregnancies[scan.i])
    /\ scan' = [scan EXCEPT !.i = @ + 1]
    /\ UNCHANGED scanFrame

\* one pass of the loop over a row that passes it: sender.message, then
\* insert_log_to_queue and the sleep of one second
ScanNotify_log_first ==
    /\ scan.pc = "loop"
    /\ scan.i <= Len(scan.pregnancies)
    /\ notifies(scan.now, scan.pregnancies[scan.i])
    /\ \E outcome \in MessageOutcomes :
         scan' = IF outcome = "raised"
                 THEN [scan EXCEPT !.pc = "raised",
                                   !.messages[scan.i] = @ + 1,
                                   !.logs[scan.i] = @ + 1]
                 ELSE [scan EXCEPT !.i = @ + 1,
                                   !.messages[scan.i] = @ + 1,
                                   !.accepted[scan.i] =
                                       IF outcome = "accepted" THEN @ + 1 ELSE @,
                                   !.logs[scan.i] = @ + 1]
    /\ UNCHANGED scanFrame
ScanNotify ==
    /\ scan.pc = "loop"
    /\ scan.i <= Len(scan.pregnancies)
    /\ notifies(scan.now, scan.pregnancies[scan.i])
    /\ \E outcome \in MessageOutcomes :
         scan' = IF outcome = "raised"
                 THEN [scan EXCEPT !.pc = "raised",
                                   !.messages[scan.i] = @ + 1]
                 ELSE [scan EXCEPT !.i = @ + 1,
                                   !.messages[scan.i] = @ + 1,
                                   !.accepted[scan.i] =
                                       IF outcome = "accepted" THEN @ + 1 ELSE @,
                                   !.logs[scan.i] = @ + 1]
    /\ UNCHANGED scanFrame

\* the loop is over
ScanEnd ==
    /\ scan.pc = "loop"
    /\ scan.i > Len(scan.pregnancies)
    /\ scan' = [scan EXCEPT !.pc = "done"]
    /\ UNCHANGED scanFrame

\* run_task catches the exception, reports it, sleeps 15 seconds and calls
\* scheduled_actions again; the clock still shows 09:00 and the scan starts
\* over with the same rows
ScanAgain ==
    /\ scan.pc = "raised"
    /\ scan.runs < MaxScans
    /\ scan' = [scan EXCEPT !.pc = "loop", !.i = 1, !.runs = @ + 1]
    /\ UNCHANGED scanFrame

NextScan ==
    \/ ScanStart
    \/ ScanSkip
    \/ ScanNotify
    \/ ScanEnd
    \/ ScanAgain

\* ------------------------------------------------------------------------
\* TaskHandlers.pdr_date_notify: the daily scan of the PDR dates
\* ------------------------------------------------------------------------
\* datetime.now(timezone.utc) at the scans of two days: day 63 and day 64, 08:00
PdrNows == {Hours(63, 8), Hours(64, 8)}

\* UserPregnancy.pdr_date: none, day 63 at 00:00 and at 10:00, day 64 at 00:00
PdrDueDates == {None, Hours(63, 0), Hours(63, 10), Hours(64, 0)}

PdrTables == UNION {[1..n -> [pdr_date : PdrDueDates]] : n \in 1..MaxRows}

\* datetime.fromisoformat(now.strftime('%Y-%m-%d 00:00:00'))
midnight_of(now) == (now \div 24) * 24

\* the positions in the table of the rows get_users_with_today_pdr returns
RECURSIVE get_users_with_today_pdr(_, _, _)
get_users_with_today_pdr(rows, now, from) ==
    IF from > Len(rows) THEN <<>>
    ELSE (IF rows[from].pdr_date = midnight_of(now) THEN <<from>> ELSE <<>>)
            \o get_users_with_today_pdr(rows, now, from + 1)

PdrFetched == get_users_with_today_pdr(scan.pregnancies, scan.now, 1)

\* scheduled_actions at 08:00 enters pdr_date_notify: the fetch
PdrScanStart ==
    /\ scan.pc = "idle"
    /\ \E now \in PdrNows, rows \in PdrTables :
         scan' = [NoScan EXCEPT !.pc = "pdr_loop", !.now = now,
                                !.pregnancies = rows, !.i = 1, !.runs = 1,
                                !.messages = [k \in 1..Len(rows) |-> 0],
                                !.accepted = [k \in 1..Len(rows) |-> 0],
                                !.logs = [k \in 1..Len(rows) |-> 0]]
    /\ UNCHANGED scanFrame

\* one pass of the loop: sender.message, then insert_log_to_queue and the
\* sleep of one second
PdrScanNotify ==
    /\ scan.pc = "pdr_loop"
    /\ scan.i <= Len(PdrFetched)
    /\ \E outcome \in MessageOutcomes, k \in {PdrFetched[scan.i]} :
         scan' = IF outcome = "raised"
                 THEN [scan EXCEPT !.pc = "pdr_raised",
                                   !.messages[k] = @ + 1]
                 ELSE [scan EXCEPT !.i = @ + 1,
                                   !.messages[k] = @ + 1,
                                   !.accepted[k] =
                                       IF outcome = "accepted" THEN @ + 1 ELSE @,
                                   !.logs[k] = @ + 1]
    /\ UNCHANGED scanFrame

\* the loop is over
PdrScanEnd ==
    /\ scan.pc = "pdr_loop"
    /\ scan.i > Len(PdrFetched)
    /\ scan' = [scan EXCEPT !.pc = "pdr_done"]
    /\ UNCHANGED scanFrame

\* run_task catches the exception, reports it, sleeps 15 seconds and calls
\* scheduled_actions again; the clock still shows 08:00 and the scan starts
\* over with the same rows
PdrScanAgain ==
    /\ scan.pc = "pdr_raised"
    /\ scan.runs < MaxScans
    /\ scan' = [scan EXCEPT !.pc = "pdr_loop", !.i = 1, !.runs = @ + 1]
    /\ UNCHANGED scanFrame

NextPdrScan ==
    \/ PdrScanStart
    \/ PdrScanNotify
    \/ PdrScanEnd
    \/ PdrScanAgain

\* ------------------------------------------------------------------------
\* TaskHandlers.scheduled_actions under run_task, against the clock
\* ------------------------------------------------------------------------
\* the clock counts quarters of a minute from 07:55:00 UTC, so that the sleep
\* of 15 seconds is one quarter; minute 0 is 07:55 and minute 5 is 08:00
minute_of(quarters) == quarters \div 4

\* now.strftime('%M') in ['05', '15', '25', '55']
is_backup_minute(now) == minute_of(now) = 0

\* now.strftime('%H:%M') == '08:00'
is_pdr_minute(now) == minute_of(now) = 5

NoSched == [pc |-> "off", clock |-> 0, now |-> 0, pdr_scans |-> 0]

schedFrame == <<logVars, syncVars, calls, tasks, delivery, scan, texts>>

\* run_task(scheduled_actions) is created at some second of 07:55
SchedStart ==
    /\ sched.pc = "off"
    /\ \E phase \in 0..3 :
         sched' = [NoSched EXCEPT !.pc = "tick", !.clock = phase]
    /\ UNCHANGED schedFrame

\* scheduled_actions: now = datetime.now(timezone.utc) and the first test
\* that holds; entering pdr_date_notify counts one scan
SchedTick ==
    /\ sched.pc = "tick"
    /\ sched.clock < MaxQuarters
    /\ sched' = [sched EXCEPT
                    !.now = sched.clock,
                    !.pc = IF is_backup_minute(sched.clock) THEN "backup"
                           ELSE IF is_pdr_minute(sched.clock) THEN "pdr"
                           ELSE "sleep",
                    !.pdr_scans = IF ~is_backup_minute(sched.clock)
                                     /\ is_pdr_minute(sched.clock)
                                  THEN @ + 1 ELSE @]
    /\ UNCHANGED schedFrame

\* back_up_users or pdr_date_notify is at work for another quarter
SchedWorks ==
    /\ sched.pc \in {"backup", "pdr"}
    /\ sched.clock < MaxQuarters
    /\ sched' = [sched EXCEPT !.clock = @ + 1]
    /\ UNCHANGED schedFrame

\* back_up_users returns; the tests that follow use the same now
SchedBackupReturns ==
    /\ sched.pc = "backup"
    /\ sched' = [sched EXCEPT
                    !.pc = IF is_pdr_minute(sched.now) THEN "pdr" ELSE "sleep",
                    !.pdr_scans = IF is_pdr_minute(sched.now) THEN @ + 1 ELSE @]
    /\ UNCHANGED schedFrame

\* pdr_date_notify returns
SchedPdrReturns ==
    /\ sched.pc = "pdr"
    /\ sched' = [sched EXCEPT !.pc = "sleep"]
    /\ UNCHANGED schedFrame

\* delay = 60 - (now2 - now); asyncio.sleep(delay if delay > 0 else 0), and
\* run_task calls scheduled_actions again
SchedSleep ==
    /\ sched.pc = "sleep"
    /\ \E delay \in {4 - (sched.clock - sched.now)} :
         sched' = [sched EXCEPT !.pc = "tick",
                                !.clock = IF delay > 0 THEN @ + delay ELSE @]
    /\ UNCHANGED schedFrame

\* an action raises: run_task reports it, sleeps 15 seconds and calls
\* scheduled_actions again
SchedRaises ==
    /\ sched.pc \in {"backup", "pdr"}
    /\ sched.clock < MaxQuarters
    /\ sched' = [sched EXCEPT !.pc = "tick", !.clock = @ + 1]
    /\ UNCHANGED schedFrame

NextSched ==
    \/ SchedStart
    \/ SchedTick
    \/ SchedWorks
    \/ SchedBackupReturns
    \/ SchedPdrReturns
    \/ SchedSleep
    \/ SchedRaises

\* ------------------------------------------------------------------------
\* main and TaskHandlers.init_constants: the start of the process
\* ------------------------------------------------------------------------
\* the store and the sheets as an earlier run of the process left them
InitStart ==
    /\ users \in UserTables
    /\ pregnancies \in PregnancyTables(users)
    /\ incomingUsers \in IncomingUserLists
    /\ incomingDates \in IncomingDateLists
    /\ pull = "start"
    /\ pre = [users |-> users, pregnancies |-> pregnancies]
    /\ usersSheet = EmptySheet
    /\ datesSheet = EmptySheet
    /\ usersGrid = 1
    /\ datesGrid = 1
    /\ spc = "idle"
    /\ table = "users"
    /\ queue = <<>>
    /\ qi = 0
    /\ run = NoRun
    /\ mutations = 0
    /\ sfaults = 0

\* check_users_exist_in_database: get_any_user
check_users_exist_in_database(rows) == rows # {}

\* init_constants: users_exist, and 'if not users_exist' the pull of both tables
InitConstantsCheck ==
    /\ pull = "start"
    /\ pull' = IF check_users_exist_in_database(users) THEN "skipped" ELSE "users"
    /\ UNCHANGED <<users, pregnancies, sheetVars, pushVars, run, mutations, sfaults,
                   incomingUsers, incomingDates, pre, logVars, otherVars>>

\* the commit of sync_pregnancies raises: there was a record to add and the
\* table is as it was
sync_pregnancies_raises(rows, incoming, user_rows, binds_text) ==
    /\ \E k \in DOMAIN incoming :
          \A p \in rows : pregnancy_key(p) # pregnancy_key(incoming[k])
    /\ sync_pregnancies(rows, incoming, user_rows, binds_text) = rows

\* update_users_in_database: db_dates.sync_dates(dates) under init_constants;
\* an exception of the commit leaves init_constants and main
SyncPregnanciesAtStart ==
    /\ pull = "dates"
    /\ \E binds_text \in BOOLEAN :
          /\ pregnancies' = sync_pregnancies(pregnancies, incomingDates, users, binds_text)
          /\ pull' = IF sync_pregnancies_raises(pregnancies, incomingDates, users, binds_text)
                     THEN "crashed" ELSE "done"
    /\ UNCHANGED <<users, sheetVars, pushVars, run, mutations, sfaults,
                   incomingUsers, incomingDates, pre, logVars, otherVars>>

\* main: init_constants has returned, run_background_tasks()
StartBackgroundTasks ==
    /\ pull \in {"done", "skipped"}
    /\ run_background_tasks

\* main: dispatcher.start_polling, the first update is handed to a handler
StartPolling ==
    /\ \A t \in TaskNames : tasks[t].pc # "off"
    /\ \A c \in CallIds : calls[c].op = "none"
    /\ CallStart

NextStart ==
    \/ InitConstantsCheck
    \/ SyncUsers
    \/ SyncPregnanciesAtStart
    \/ StartBackgroundTasks
    \/ StartPolling

\* ------------------------------------------------------------------------
\* The users worksheet read back: services/Users.py, generate_users
\* ------------------------------------------------------------------------
\* str.strip on the cell texts of the model
strip(v) == IF v = " Ann " THEN "Ann" ELSE v

\* value = None if value == 'None' else value.strip()
cell_value(v) == IF v = "None" THEN PyNone ELSE strip(v)

\* int(re.sub(r'[^\d-]', '', text)) on the text of an id
IntOf(text) == CHOOSE n \in 1..9 : IntText(n) = text

\* generate_users on the rows below the header (id, full_name, username, lang,
\* reaction): one User per non-empty row with an id, the row number as
\* google_row_id; needs_backup_update takes the column default
generate_users(sheet) ==
    LET rows == SelectSeq([i \in 1..(IF DOMAIN sheet = {} THEN 0 ELSE MaxOf(DOMAIN sheet)) |-> i],
                          LAMBDA i : /\ i \in DOMAIN sheet
                                     /\ Len(sheet[i]) > 0
                                     /\ cell_value(sheet[i][1]) # PyNone)
    IN  [k \in DOMAIN rows |->
            LET record == [j \in DOMAIN sheet[rows[k]] |-> cell_value(sheet[rows[k]][j])]
            IN  [id |-> IntOf(record[1]), full_name |-> record[2], username |-> record[3],
                 language |-> record[4], reaction |-> (record[5] = ReactionText(TRUE)),
                 google_row_id |-> rows[k], needs_backup_update |-> FALSE]]

\* the records a handler can have created for one Telegram user: the full
\* name is the user's own choice
RoundTripNames == {"Ann", "None"}
RoundTripLanguages == {"ru", "en"}
RoundTripRows == {2, 3}
RoundTripUsers ==
    [id : UserIds, full_name : RoundTripNames, username : Usernames,
     language : RoundTripLanguages, reaction : BOOLEAN, google_row_id : RoundTripRows,
     needs_backup_update : {TRUE}]

InitRoundTrip ==
    /\ \E u \in RoundTripUsers : users = {u}
    /\ pregnancies = {}
    /\ usersSheet = EmptySheet
    /\ datesSheet = EmptySheet
    /\ usersGrid = 10
    /\ datesGrid = 1
    /\ spc = "idle"
    /\ table = "users"
    /\ queue = <<>>
    /\ qi = 0
    /\ run = NoRun
    /\ mutations = 0
    /\ sfaults = 0
    /\ pull = "off"
    /\ incomingUsers = <<>>
    /\ incomingDates = <<>>
    /\ pre = [users |-> {}, pregnancies |-> {}]

\* the process starts on an empty store after a finished push:
\* update_users_in_database reads the users worksheet and builds the list
GenerateUsers ==
    /\ pull = "off"
    /\ spc = "idle"
    /\ run.over
    /\ pre' = [users |-> users, pregnancies |-> pregnancies]
    /\ users' = {}
    /\ incomingUsers' = generate_users(usersSheet)
    /\ pull' = "users"
    /\ UNCHANGED <<pregnancies, sheetVars, pushVars, run, mutations, sfaults,
                   incomingDates, logVars, otherVars>>

NextRoundTrip ==
    \/ PushUsersFetch
    \/ PushRange
    \/ PushUpdateCells
    \/ PushMark
    \/ PushDatesFetch
    \/ GenerateUsers
    \/ SyncUsers

\* ------------------------------------------------------------------------
\* Texts table: database/texts_repository.py, TextsRepository.sync_texts
\* ------------------------------------------------------------------------
TextIds == {"start", "help"}
TextLanguages == {"ru", "en"}
Contents == {"v1", "v2"}

\* Texts(text_id, language, content) as generate_texts builds them
IncomingTexts == [text_id : TextIds, language : TextLanguages, content : Contents]

\* the lists of at most MaxTexts incoming records; a text_id may repeat
IncomingLists == UNION {[1..n -> IncomingTexts] : n \in 0..MaxTexts}

\* the key of sync_texts: (text.text_id, text.language)
text_key(t) == <<t.text_id, t.language>>
TextKeys == TextIds \X TextLanguages

\* the tables earlier runs of sync_texts can have left: one row per key, the
\* ids in the order of insertion
KeyOrder == <<<<"start", "ru">>, <<"start", "en">>, <<"help", "ru">>, <<"help", "en">>>>
StoredTables ==
    {{[id |-> k, text_id |-> KeyOrder[k][1], language |-> KeyOrder[k][2], content |-> c[k]] :
         k \in present} :
       present \in SUBSET (DOMAIN KeyOrder), c \in [DOMAIN KeyOrder -> Contents]}

NoTexts == [pc |-> "off", rows |-> {}, incoming |-> <<>>, pre |-> {},
            added_ids |-> {}, updated_ids |-> {}]

\* sync_texts: the table after the commit and the two returned dictionaries,
\* each held as the set of its (text_id, language) pairs
sync_texts(rows, incoming) ==
    LET in_dict(key) == \E k \in DOMAIN incoming : text_key(incoming[k]) = key
        \* a dict comprehension: the last record of a key stays
        new_text_keys_dict(key) ==
            incoming[CHOOSE k \in DOMAIN incoming :
                        /\ text_key(incoming[k]) = key
                        /\ \A j \in DOMAIN incoming : text_key(incoming[j]) = key => j <= k]
        \* and a key keeps the place of its first record
        first(key) ==
            CHOOSE k \in DOMAIN incoming :
                /\ text_key(incoming[k]) = key
                /\ \A j \in DOMAIN incoming : text_key(incoming[j]) = key => k <= j
        existing_text_keys == {text_key(t) : t \in {x \in rows : in_dict(text_key(x))}}
        text_keys_to_delete == {text_key(t) : t \in {x \in rows : ~in_dict(text_key(x))}}
        changed == {text_key(t) : t \in {x \in rows :
                       /\ in_dict(text_key(x))
                       /\ x.content # new_text_keys_dict(text_key(x)).content}}
        kept == {[t EXCEPT !.content = new_text_keys_dict(text_key(t)).content] :
                    t \in {x \in rows : in_dict(text_key(x))}}
        keys_to_add == {key \in TextKeys : in_dict(key) /\ key \notin existing_text_keys}
        max_id == IF rows = {} THEN 0 ELSE MaxOf({t.id : t \in rows})
        place(key) == Cardinality({other \in keys_to_add : first(other) <= first(key)})
        texts_to_add ==
            {[id |-> max_id + place(key), text_id |-> key[1], language |-> key[2],
              content |-> new_text_keys_dict(key).content] : key \in keys_to_add}
    IN  [rows |-> kept \cup texts_to_add,
         added_ids |-> keys_to_add,
         updated_ids |-> changed \cup text_keys_to_delete]

textsFrame == <<logVars, syncVars, calls, tasks, delivery, scan, sched>>

\* update_texts_in_local_database: db.sync_texts(texts)
SyncTexts ==
    /\ texts.pc \in {"ready", "synced"}
    /\ \E result \in {sync_texts(texts.rows, texts.incoming)} :
         texts' = [texts EXCEPT !.pc = IF texts.pc = "ready" THEN "synced" ELSE "again",
                                !.pre = texts.rows,
                                !.rows = result.rows,
                                !.added_ids = result.added_ids,
                                !.updated_ids = result.updated_ids]
    /\ UNCHANGED textsFrame

NextTexts == SyncTexts

\* ------------------------------------------------------------------------
\* Specifications
\* ------------------------------------------------------------------------
\* no handler call, no supervised task, no delivery and no scan in progress
OthersOff ==
    /\ calls = NoCalls
    /\ tasks = NoTasks
    /\ delivery = NoDelivery
    /\ scan = NoScan
    /\ sched = NoSched
    /\ texts = NoTexts

\* the Log pipeline on its own
LogAlone == InitLog /\ SyncOff /\ OthersOff

SpecLog == LogAlone /\ [][NextLog]_vars

\* the event loop keeps running the flush task under its supervisor: a step of
\* the task that can be taken is taken; no delivery error is ever forced
FairSpecLog == SpecLog /\ WF_vars(FlushStep)

\* the push and the handlers' mutations
SyncAlone == InitSync /\ LogIdle /\ OthersOff

SpecSync == SyncAlone /\ [][NextSync]_vars

\* the pull on given tables and given incoming lists
PullAlone == InitPull /\ LogIdle /\ OthersOff

SpecPull == PullAlone /\ [][NextPull]_vars

\* concurrent update handlers on an empty store
HandlersAlone ==
    /\ LogIdle
    /\ SyncOff
    /\ calls = NoCalls
    /\ tasks = NoTasks
    /\ delivery = NoDelivery
    /\ scan = NoScan
    /\ sched = NoSched
    /\ texts = NoTexts

SpecHandlers == HandlersAlone /\ [][NextHandlers]_vars

\* update handlers, one after another, while back_up_users runs under
\* scheduled_actions
LiveCallStart ==
    /\ \A c \in CallIds : calls[c].pc \in {"off", "done", "raised"}
    /\ CallStart

NextLive ==
    \/ LiveCallStart
    \/ GetUserByTelegramId
    \/ CreateUserMax
    \/ CreateUserCommit
    \/ PersonalData
    \/ GetOrCreateLookup
    \/ PregnancyMax
    \/ PregnancyCommit
    \/ UpdateDate
    \/ PushUsersFetch
    \/ PushDatesFetch
    \/ PushRange
    \/ PushAddRows
    \/ PushRetryRange
    \/ PushUpdateCells
    \/ PushMark

SpecLive == HandlersAlone /\ [][NextLive]_vars

\* one call of MessageSender.message
SenderAlone ==
    /\ LogIdle
    /\ SyncOff
    /\ calls = NoCalls
    /\ tasks = NoTasks
    /\ delivery = NoDelivery
    /\ scan = NoScan
    /\ sched = NoSched
    /\ texts = NoTexts

SpecSender == SenderAlone /\ [][NextSender]_vars

ScanAlone ==
    /\ LogIdle
    /\ SyncOff
    /\ calls = NoCalls
    /\ tasks = NoTasks
    /\ delivery = NoDelivery
    /\ scan = NoScan
    /\ sched = NoSched
    /\ texts = NoTexts

SpecScan == ScanAlone /\ [][NextScan]_vars

SpecPdrScan == ScanAlone /\ [][NextPdrScan]_vars

\* the two scans of scheduled_actions, 08:00 and 09:00
NextScans == NextScan \/ NextPdrScan

SpecScans == ScanAlone /\ [][NextScans]_vars

SchedAlone ==
    /\ LogIdle
    /\ SyncOff
    /\ calls = NoCalls
    /\ tasks = NoTasks
    /\ delivery = NoDelivery
    /\ scan = NoScan
    /\ sched = NoSched
    /\ texts = NoTexts

\* one table of texts and one incoming list, synchronised twice
TextsAlone ==
    /\ LogIdle
    /\ SyncOff
    /\ calls = NoCalls
    /\ tasks = NoTasks
    /\ delivery = NoDelivery
    /\ scan = NoScan
    /\ sched = NoSched
    /\ \E rows \in StoredTables, incoming \in IncomingLists :
          texts = [NoTexts EXCEPT !.pc = "ready", !.rows = rows, !.incoming = incoming]

SpecTexts == TextsAlone /\ [][NextTexts]_vars

RoundTripAlone == InitRoundTrip /\ LogIdle /\ OthersOff

SpecRoundTrip == RoundTripAlone /\ [][NextRoundTrip]_vars

SpecSched == SchedAlone /\ [][NextSched]_vars

TasksAlone ==
    /\ LogIdle
    /\ SyncOff
    /\ calls = NoCalls
    /\ tasks = NoTasks
    /\ delivery = NoDelivery
    /\ scan = NoScan
    /\ sched = NoSched
    /\ texts = NoTexts

SpecTasks == TasksAlone /\ [][NextTasks]_vars

\* the start of the process on a store and sheets left by earlier runs
StartAlone == InitStart /\ LogIdle /\ OthersOff

SpecStart == StartAlone /\ [][NextStart]_vars

\* ------------------------------------------------------------------------
\* Vocabulary of the claims on the Log pipeline
\* ------------------------------------------------------------------------
HasRow(id) == \E r \in logs : r.id = id
Row(id) == CHOOSE r \in logs : r.id = id
Pending(id) == \E r \in logs : r.id = id /\ r.post_id = None

\* the messages the log channel accepted in the current cycle
CycleSent == SubSeq(sent, cycleStart + 1, Len(sent))

\* the mark that follows the k-th accepted message has been executed
MarkDone(k) == ~(k = Len(sent) /\ pc = "mark" /\ logged_message # NoMessage)

\* the current cycle is over: it returned, or raised into the supervisor
CycleReturned == pc = "idle" /\ log_entries # <<>> /\ idx = Len(logs_to_send) + 1
CycleOver == pc \in {"idle", "crashed"} /\ log_entries # <<>>
NoFaultInCycle == faults = cycleFaults

Contains(t, sub) ==
    \E i \in 0..(Len(t) - Len(sub)) : SubSeq(t, i + 1, i + Len(sub)) = sub

\* the message holds a part of the row's text
Carries(m, text) ==
    \E i \in DOMAIN SplitBQ(text, <<>>) :
        /\ SplitBQ(text, <<>>)[i] # <<>>
        /\ Contains(m.text, SplitBQ(text, <<>>)[i])

EntryIds(entries) == [k \in DOMAIN entries |-> entries[k].id]

\* C1: entries are posted in id order: whenever a row is posted, every row
\* with a smaller id is posted too, by the same or an earlier message.
C1_FifoPosting ==
    \A a \in logs : \A b \in logs :
        (a.id < b.id /\ b.post_id # None) =>
            (a.post_id # None /\ a.post_id <= b.post_id)

\* C2: every inserted entry is eventually marked posted, whatever its text.
C2_EventuallyPosted ==
    \A i \in 1..MaxInserts : Pending(i) ~> ~Pending(i)

C4_MarkTwice ==
    /\ (pc = "mark" /\ logged_message # NoMessage) =>
          LET once == update_posted_logs(logs, job.ids, logged_message.message_id,
                                         logged_message.date)
              twice == update_posted_logs(once, job.ids, logged_message.message_id,
                                          logged_message.date)
          IN  /\ twice = once
              /\ \A r \in logs : r.id \notin SeqToSet(job.ids) => r \in once
              /\ \A k \in DOMAIN job.ids :
                    \A r \in SeqToSet(get_logs_to_post(once)) : r.id # job.ids[k]
    /\ \A r \in logs :
          r.post_id # None =>
              \E k \in DOMAIN sent :
                  /\ sent[k].message_id = r.post_id
                  /\ sent[k].date = r.post_date
                  /\ r.id \in SeqToSet(sent[k].ids)
                  /\ Carries(sent[k], r.text)
    /\ \A k \in DOMAIN sent :
          MarkDone(k) => \A n \in DOMAIN sent[k].ids : ~Pending(sent[k].ids[n])

\* C5: after the mark of an ordinary (non-split) send, every row of the batch
\* holds the id and the date of the message returned by that send; and a
\* cycle whose pending entries fit in one chunk posts them by exactly one
\* send, which carries all of them.
C5_OneSendOneMark ==
    /\ \A k \in DOMAIN sent :
          (sent[k].kind = "plain" /\ MarkDone(k)) =>
              \A n \in DOMAIN sent[k].ids :
                  HasRow(sent[k].ids[n]) =>
                      /\ Row(sent[k].ids[n]).post_id = sent[k].message_id
                      /\ Row(sent[k].ids[n]).post_date = sent[k].date
    /\ (CycleReturned /\ NoFaultInCycle /\ Len(logs_to_send) = 1
          /\ JobFor(logs_to_send[1]).kind = "plain") =>
              /\ Len(CycleSent) = 1
              /\ CycleSent[1].ids = EntryIds(log_entries)
              /\ CycleSent[1].text = logs_to_send[1].text
              /\ \A k \in DOMAIN log_entries : ~Pending(log_entries[k].id)

C5_Witness ==
    /\ CycleReturned
    /\ Len(log_entries) >= 2
    /\ Len(logs_to_send) = 1
    /\ Len(CycleSent) = 1
    /\ \A k \in DOMAIN log_entries :
          /\ HasRow(log_entries[k].id)
          /\ Row(log_entries[k].id).post_id = CycleSent[1].message_id
          /\ Row(log_entries[k].id).post_date = CycleSent[1].date

\* C6: a cycle that fetched one entry longer than 4096 characters makes
\* exactly two sends, a header marked #split and a distinct body, each for
\* that entry's id.
C6_SplitTwoSends ==
    (CycleOver /\ NoFaultInCycle /\ Len(log_entries) = 1
        /\ TextLen(log_entries[1].text) > CHUNK_LIMIT) =>
        /\ Len(CycleSent) = 2
        /\ \E h \in {1, 2} : \E b \in {1, 2} :
              /\ h # b
              /\ CycleSent[h].kind = "header"
              /\ Contains(CycleSent[h].text, <<": #split">>)
              /\ CycleSent[b].kind = "body"
              /\ CycleSent[h].text # CycleSent[b].text
              /\ CycleSent[h].ids = <<log_entries[1].id>>
              /\ CycleSent[b].ids = <<log_entries[1].id>>
        /\ ~Pending(log_entries[1].id)

HasCells(sheet, row, cells) == row \in DOMAIN sheet /\ sheet[row] = cells

\* the spreadsheet row that shows a record's values
UserRowShows(cells, u) ==
    cells = <<IntText(u.id), u.full_name,
              IF u.username = PyNone THEN "None" ELSE u.username,
              u.language, ReactionText(u.reaction)>>

DateRowShows(cells, p) ==
    /\ Len(cells) >= 4
    /\ SubSeq(cells, 1, 4) = <<IntText(p.user_id), IntText(p.chat_id.v),
                               DateText(p.pdr_date), DateText(p.period_date)>>
    /\ p.gender # None => (Len(cells) >= 5 /\ cells[5] = GenderText(p.gender))

Dirty(rows, id) == \E r \in rows : r.id = id /\ r.needs_backup_update

\* C8: after a push that ran to its end with no failure and no mutation on
\* the way, no record is dirty, and the row of every record the push loaded
\* shows the record's values, for a date record its gender too.
C8_PushMirrorsAllFields ==
    (run.clean /\ run.over) =>
        /\ \A u \in users :
              /\ ~u.needs_backup_update
              /\ u.id \in run.users =>
                    /\ u.google_row_id \in DOMAIN usersSheet
                    /\ UserRowShows(usersSheet[u.google_row_id], u)
        /\ \A p \in pregnancies :
              /\ ~p.needs_backup_update
              /\ p.id \in run.dates =>
                    /\ p.id \in DOMAIN datesSheet
                    /\ DateRowShows(datesSheet[p.id], p)

\* C9: a record's dirty flag goes from true to false only in the mark step of
\* the push, for the record the loop is at, and after the row of that record
\* was written; the step in which the push fails changes no record, so the
\* record the loop is at and the ones after it stay dirty and the ones
\* before it stay as they are.
C9_FlagClearedAfterWrite ==
    [][/\ \A id \in UserIds :
             (Dirty(users, id) /\ ~Dirty(users', id)) =>
                 /\ spc = "mark" /\ table = "users" /\ queue[qi].id = id
                 /\ HasCells(usersSheet, queue[qi].google_row_id, UserCells(queue[qi]))
       /\ \A p \in pregnancies :
             (Dirty(pregnancies, p.id) /\ ~Dirty(pregnancies', p.id)) =>
                 /\ spc = "mark" /\ table = "dates" /\ queue[qi].id = p.id
                 /\ HasCells(datesSheet, queue[qi].id, DateCells(queue[qi]))
       /\ (spc # "crashed" /\ spc' = "crashed") =>
             /\ users' = users /\ pregnancies' = pregnancies
             /\ \A k \in qi..Len(queue) :
                   Dirty(IF table = "users" THEN users' ELSE pregnancies', queue[k].id)
      ]_vars

C9_Witness ==
    /\ spc = "crashed"
    /\ table = "users"
    /\ qi = 2
    /\ ~Dirty(users, queue[1].id)
    /\ Dirty(users, queue[2].id)
    /\ HasCells(usersSheet, queue[1].google_row_id, UserCells(queue[1]))

\* C10: a pull deletes no record, and a record whose key is in neither
\* incoming list is the same after the pull as before, field for field.
C10_PullKeepsStoreOnly ==
    [][/\ \A u \in users :
             /\ \E v \in users' : v.id = u.id
             /\ (\A k \in DOMAIN incomingUsers : incomingUsers[k].id # u.id) => u \in users'
       /\ \A p \in pregnancies :
             /\ \E q \in pregnancies' : q.id = p.id
             /\ (\A k \in DOMAIN incomingDates :
                    pregnancy_key(incomingDates[k]) # pregnancy_key(p)) => p \in pregnancies'
      ]_vars

C10_Witness ==
    /\ pull = "done"
    /\ users # pre.users
    /\ pregnancies # pre.pregnancies
    /\ \E u \in pre.users :
          /\ \A k \in DOMAIN incomingUsers : incomingUsers[k].id # u.id
          /\ u.needs_backup_update
          /\ u \in users
    /\ \E p \in pre.pregnancies :
          /\ \A k \in DOMAIN incomingDates :
                incomingDates[k].user_id # p.user_id
          /\ p.needs_backup_update
          /\ p \in pregnancies

\* ------------------------------------------------------------------------
\* Claims on the update handlers
\* ------------------------------------------------------------------------
\* C11: in every reachable state the store holds at most one pregnancy row
\* per (user_id, chat_id), whatever the interleaving of get-or-create calls
C11_OneRowPerKey ==
    \A p, q \in pregnancies :
       (p.user_id = q.user_id /\ p.chat_id = q.chat_id) => p = q

\* C20: the row pointers of distinct users are pairwise distinct, whatever
\* the interleaving of create_user calls
C20_RowPointersDistinct ==
    \A u, v \in users :
       u.id # v.id => u.google_row_id # v.google_row_id

\* ------------------------------------------------------------------------
\* Claims on MessageSender.message
\* ------------------------------------------------------------------------
\* C14: after any number of consecutive transient failures without a hint the
\* call is still retrying, with the attempt counter equal to the number of
\* failures, and when a later attempt is accepted the caller gets that
\* attempt's message
C14_RetriesWithoutLimit ==
    /\ delivery.last = "transient" =>
          /\ delivery.status = "calling"
          /\ delivery.args.attempt = delivery.failures
    /\ (delivery.last = "ok" /\ Request(delivery.args).assigned) =>
          /\ delivery.status = "returned"
          /\ delivery.result = Accepted(Request(delivery.args))

\* C15: a failure with a parsed retry-after of N seconds sleeps N + 1 seconds
\* and makes one nested call whose request, raises option and attempt counter
\* are those of the failed attempt
C15_RetryAfterSameCall ==
    [][delivery'.hints > delivery.hints =>
          /\ delivery'.slept = [unit |-> "1s", base |-> delivery'.hint + 1, exp |-> 1]
          /\ delivery'.status = "calling"
          /\ delivery'.depth = delivery.depth + 1
          /\ Request(delivery'.args) = Request(delivery.args)
          /\ delivery'.args.raises = delivery.args.raises
          /\ delivery'.args.attempt = delivery.args.attempt]_vars

\* a retry after a hint whose arguments are the rebound locals of the edit
\* branch, not the arguments the caller passed
C15_Witness ==
    /\ delivery.hints > 0
    /\ delivery.last = "retry_after"
    /\ delivery.first.keyboard = "True"
    /\ delivery.args.keyboard # "True"
    /\ delivery.args.chat_id # delivery.first.chat_id

\* C16: a benign error ends the call: no retry, no raise whatever raises is,
\* and no message is returned
C16_BenignSwallowed ==
    delivery.last = "benign" =>
       /\ delivery.status = "returned"
       /\ delivery.exception = "none"
       /\ delivery.result = NoResponse

C16_Witness ==
    /\ delivery.last = "benign"
    /\ delivery.args.raises
    /\ delivery.depth > 1
    /\ delivery.status = "returned"

\* C17: an error that is neither transient nor benign is raised when raises
\* is true; with raises false it is not raised, and it has been reported to
\* the error handler
C17_OtherRaisedOrReported ==
    delivery.last = "other" =>
       IF delivery.args.raises
       THEN delivery.status = "raised"
       ELSE /\ delivery.status = "returned"
            /\ delivery.reports > 0

\* the sends and edits C18 names
MessageMethods ==
    {"send_message", "send_document", "send_video", "send_photo", "send_audio",
     "send_voice", "send_animation", "send_sticker", "send_video_note",
     "forward_message", "edit_message_caption", "edit_message_reply_markup",
     "edit_message_text"}

\* C18: when the platform accepted a send or an edit, the call returns that
\* message, not None
C18_AcceptedIsReturned ==
    (delivery.last = "ok" /\ Request(delivery.args).method \in MessageMethods) =>
       /\ delivery.status = "returned"
       /\ delivery.result = Accepted(Request(delivery.args))
       /\ delivery.result.ty = "message"

\* ------------------------------------------------------------------------
\* Claims on the growth of the sheet
\* ------------------------------------------------------------------------
\* C12: in the push, a read of a row past the grid is followed by a growth of
\* the sheet by 1000 rows and one second read; after that read the row is
\* written and then the flag cleared; a failure of the second read, and any
\* other spreadsheet error, ends the push with the exception
C12_GrowOnceThenWrite ==
    [][/\ (spc = "range" /\ spc' # spc) =>
             IF sfaults' > sfaults THEN spc' = "crashed"
             ELSE IF RowPointer > Grid THEN spc' = "grow"
             ELSE spc' = "write"
       /\ (spc = "grow" /\ spc' # spc) =>
             IF sfaults' > sfaults THEN spc' = "crashed"
             ELSE /\ spc' = "retry"
                  /\ IF table = "users"
                     THEN usersGrid' = usersGrid + 1000 /\ datesGrid' = datesGrid
                     ELSE datesGrid' = datesGrid + 1000 /\ usersGrid' = usersGrid
       /\ (spc = "retry" /\ spc' # spc) =>
             IF sfaults' > sfaults \/ RowPointer > Grid THEN spc' = "crashed"
             ELSE spc' = "write"
       /\ (spc = "write" /\ spc' # spc) =>
             IF sfaults' > sfaults THEN spc' = "crashed"
             ELSE /\ spc' = "mark"
                  /\ RowPointer <= Grid
                  /\ IF table = "users"
                     THEN HasCells(usersSheet', RowPointer, UserCells(queue[qi]))
                     ELSE HasCells(datesSheet', RowPointer, DateCells(queue[qi]))
       /\ (spc = "mark" /\ spc' # spc) =>
             ~Dirty(IF table = "users" THEN users' ELSE pregnancies', queue[qi].id)
       /\ (spc' = "crashed" /\ spc # "crashed") =>
             /\ users' = users /\ pregnancies' = pregnancies
             /\ usersSheet' = usersSheet /\ datesSheet' = datesSheet
      ]_vars

\* a user whose row lay past a sheet of one row: the sheet has grown once, the
\* row is written and the flag is cleared
C12_Witness ==
    /\ usersGrid = 1001
    /\ \E u \in users :
          /\ u.google_row_id > 1
          /\ ~u.needs_backup_update
          /\ HasCells(usersSheet, u.google_row_id, UserCells(u))

\* ------------------------------------------------------------------------
\* Claims on the period scan
\* ------------------------------------------------------------------------
\* whole days between the period date and now, the weeks in them and the days
\* left over
ElapsedDays(now, pregnancy) == (now - pregnancy.period_date) \div 24
ElapsedWeeks(now, pregnancy) == ElapsedDays(now, pregnancy) \div 7
DaysWithinWeek(now, pregnancy) == ElapsedDays(now, pregnancy) % 7

ShouldFire(now, pregnancy) ==
    /\ DaysWithinWeek(now, pregnancy) = 0
    /\ \/ pregnancy.pdr_date = None /\ ElapsedWeeks(now, pregnancy) <= 40
       \/ pregnancy.pdr_date # None /\ now < pregnancy.pdr_date

\* C13: when the scan has run, every fetched record with zero days within the
\* week that is either without pdr date and at most 40 weeks old or ahead of
\* its pdr date has exactly one message and one log entry, and every other
\* record has none
C13_FiresIffOnce ==
    scan.pc \in {"done", "raised"} =>
        \A k \in 1..Len(scan.pregnancies) :
            LET n == IF ShouldFire(scan.now, scan.pregnancies[k]) THEN 1 ELSE 0
            IN  scan.messages[k] = n /\ scan.logs[k] = n

\* ------------------------------------------------------------------------
\* Claims on the supervised tasks
\* ------------------------------------------------------------------------
\* C19: a task run by run_task with repeating=True loops forever: whatever
\* its function raises, the coroutine of run_task never ends
C19_TaskLoopsForever ==
    \A t \in TaskNames : tasks[t].pc # "ended"

\* ------------------------------------------------------------------------
\* Claims on the pull
\* ------------------------------------------------------------------------
\* the key of a date record as the sheet and the store name it: the numbers
DateKey(p) == <<p.user_id, p.chat_id.v>>

UserKeys(rows) == {u.id : u \in rows}
DateKeys(rows) == {DateKey(p) : p \in rows}

\* C21: after a pull, for every incoming key the store holds exactly one record
\* with that key and its fields are the incoming ones, and the keys of the
\* store are its keys before the pull together with the incoming keys
C21_PullUpserts ==
    pull = "done" =>
        /\ \A k \in DOMAIN incomingUsers :
              \E u \in users :
                 /\ \A v \in users : v.id = incomingUsers[k].id => v = u
                 /\ u.id = incomingUsers[k].id
                 /\ u.full_name = incomingUsers[k].full_name
                 /\ u.username = incomingUsers[k].username
                 /\ u.language = incomingUsers[k].language
                 /\ u.reaction = incomingUsers[k].reaction
                 /\ u.google_row_id = incomingUsers[k].google_row_id
        /\ \A k \in DOMAIN incomingDates :
              \E p \in pregnancies :
                 /\ \A q \in pregnancies : DateKey(q) = DateKey(incomingDates[k]) => q = p
                 /\ DateKey(p) = DateKey(incomingDates[k])
                 /\ p.pdr_date = incomingDates[k].pdr_date
                 /\ p.period_date = incomingDates[k].period_date
                 /\ p.gender = incomingDates[k].gender
        /\ UserKeys(users) =
              UserKeys(pre.users) \cup {incomingUsers[k].id : k \in DOMAIN incomingUsers}
        /\ DateKeys(pregnancies) =
              DateKeys(pre.pregnancies)
                 \cup {DateKey(incomingDates[k]) : k \in DOMAIN incomingDates}

\* C22: at the start of the process the users are pulled if and only if the
\* store holds no user and the date records if and only if it holds no date
\* record, and no task and no handler runs before the pull is over
C22_PullIffEmpty ==
    /\ pull \in {"users", "dates", "done", "crashed"} => pre.users = {}
    /\ pull \in {"dates", "done", "crashed"} => pre.pregnancies = {}
    /\ pull = "skipped" => pre.users # {} /\ pre.pregnancies # {}
    /\ \A t \in TaskNames : tasks[t].pc # "off" => pull \in {"done", "skipped"}
    /\ \A c \in CallIds : calls[c].op # "none" => pull \in {"done", "skipped"}

\* ------------------------------------------------------------------------
\* Claims on the PDR scan
\* ------------------------------------------------------------------------
\* C23: when the PDR scan has run, every record whose pdr date is today at
\* 00:00 has exactly one message and one log entry and every other record
\* has none
C23_OnePerDueRecord ==
    scan.pc \in {"pdr_done", "pdr_raised"} =>
        \A k \in 1..Len(scan.pregnancies) :
            LET n == IF scan.pregnancies[k].pdr_date = (scan.now \div 24) * 24
                     THEN 1 ELSE 0
            IN  scan.messages[k] = n /\ scan.logs[k] = n

\* ------------------------------------------------------------------------
\* Claims on the schedule
\* ------------------------------------------------------------------------
\* C24: the PDR scan runs exactly once at 08:00: never a second time, and
\* once the clock has passed 08:00 the scan has run, whether or not an action
\* raised or took longer than a minute
C24_OncePerScheduledTime ==
    /\ sched.pdr_scans <= 1
    /\ (sched.pc = "tick" /\ minute_of(sched.clock) > 5) => sched.pdr_scans = 1

\* ------------------------------------------------------------------------
\* Claims on the batches of a flush cycle
\* ------------------------------------------------------------------------
\* ids is a run of consecutive elements of the sequence all
IsRun(ids, all) ==
    \E i \in 0..(Len(all) - Len(ids)) : SubSeq(all, i + 1, i + Len(ids)) = ids

\* C25: the ids one send of a flush cycle marks are a contiguous run of the
\* fetched pending list, in the order fetched: no id of another batch lies
\* between two of them
C25_ContiguousBatches ==
    \A k \in DOMAIN CycleSent : IsRun(CycleSent[k].ids, EntryIds(log_entries))

\* C26: the header + body split is applied only to a batch of exactly one
\* entry whose own text is longer than 4096; a batch of several entries is
\* sent as one ordinary message
C26_SplitOnlySingleOversized ==
    /\ \A i \in DOMAIN logs_to_send :
          LET c == logs_to_send[i] IN
          JobFor(c).kind = "body" =>
              /\ Len(c.ids) = 1
              /\ \E k \in DOMAIN log_entries :
                    /\ log_entries[k].id = c.ids[1]
                    /\ TextLen(log_entries[k].text) > CHUNK_LIMIT
    /\ \A k \in DOMAIN sent : Len(sent[k].ids) >= 2 => sent[k].kind = "plain"

\* C27: in the split of an oversized entry the header marked #split is sent
\* first and the body is sent as a reply to it: every body message in the log
\* channel comes after the header of its entry and has the header's message
\* id as its reply target
C27_HeaderFirstBodyReplies ==
    \A b \in DOMAIN sent :
        (sent[b].kind = "body" /\ Len(sent[b].ids) = 1) =>
            \E h \in 1..(b - 1) :
                /\ sent[h].kind = "header"
                /\ sent[h].ids = sent[b].ids
                /\ Contains(sent[h].text, <<": #split">>)
                /\ sent[b].reply_id = sent[h].message_id

\* ------------------------------------------------------------------------
\* Claims on the archive step
\* ------------------------------------------------------------------------
PostedRows(rows) == {r \in rows : r.post_id # None}
PendingRows(rows) == {r \in rows : r.post_id = None}

\* the blob holds the texts of exactly these rows, in ascending id order
BlobOf(blob, rows) ==
    /\ Len(blob.data) = Cardinality(rows)
    /\ \A k \in DOMAIN blob.data :
          \E r \in rows : r.id = blob.ids[k] /\ r.text = blob.data[k]
    /\ \A k \in DOMAIN blob.ids : \A l \in DOMAIN blob.ids :
          k < l => blob.ids[k] < blob.ids[l]

InNotice ==
    /\ sent # <<>>
    /\ logged_message = [message_id |-> sent[Len(sent)].message_id,
                         date |-> sent[Len(sent)].date]
    /\ NeedsArchive(logged_message)
    /\ job.kind = sent[Len(sent)].kind
    /\ job.text = sent[Len(sent)].text
    /\ job.ids = sent[Len(sent)].ids
    /\ response # NoMessage
    /\ log_ids_to_delete # <<>>
    /\ \A k \in DOMAIN log_ids_to_delete : ~HasRow(log_ids_to_delete[k])

C30_LogStoreDiscipline ==
    [][/\ \A r \in PendingRows(logs) : \E q \in logs' : q.id = r.id
       /\ \A r \in logs : \A q \in logs' :
             (q.id = r.id /\ (q.post_id # r.post_id \/ q.post_date # r.post_date)) =>
                 /\ pc = "mark"
                 /\ r.id \in SeqToSet(job.ids)
                 /\ q.post_id = logged_message.message_id
                 /\ q.post_date = logged_message.date
                 /\ q.text = r.text
       /\ \A q \in logs' :
             (\A r \in logs : r.id # q.id) => (q.post_id = None /\ q.post_date = None)
       /\ (pc = "archive" /\ pc' = "remove") =>
             log_ids_to_delete' = Backup(RowsById(PostedRows(logs))).ids
       /\ \A r \in logs :
             (\A q \in logs' : q.id # r.id) =>
                 /\ pc = "remove"
                 /\ log_ids_to_delete = Backup(RowsById(PostedRows(logs))).ids
                 /\ \E k \in DOMAIN log_ids_to_delete :
                       /\ log_ids_to_delete[k] = r.id
                       /\ Backup(RowsById(PostedRows(logs))).data[k] = r.text
      ]_vars

C30_Witness ==
    /\ CycleReturned
    /\ notified = 1
    /\ log_ids_to_delete # <<>>
    /\ \A k \in DOMAIN log_ids_to_delete : ~HasRow(log_ids_to_delete[k])
    /\ \E r \in logs : r.post_id = None
    /\ \E r \in logs : r.post_id # None

\* ------------------------------------------------------------------------
\* Claims on the dirty flag
\* ------------------------------------------------------------------------
\* C31: every mutating repository call leaves the dirty flag of its record
\* true in the store when it returns: the commit of create_user, of
\* update_user_personal_data, of a get_or_create_user_pregnancy that creates
\* the row and of the two date setters
C31_MutationLeavesDirty ==
    [][\A c \in CallIds :
          /\ (calls[c].pc = "create_user_commit"
                /\ calls'[c].pc \in {"personal_data", "get_or_create"}) =>
                Dirty(users', calls[c].user_id)
          /\ (calls[c].pc = "personal_data" /\ calls'[c].pc = "done"
                /\ calls[c].loaded # calls[c].username) =>
                Dirty(users', calls[c].user_id)
          /\ (calls[c].pc = "pregnancy_commit"
                /\ calls'[c].pc \in {"done", "update_date"}) =>
                Dirty(pregnancies', calls'[c].date_id)
          /\ (calls[c].pc = "update_date" /\ calls'[c].pc = "done") =>
                Dirty(pregnancies', calls[c].date_id)
      ]_vars

\* ------------------------------------------------------------------------
\* Claims on the error reports of the supervised tasks
\* ------------------------------------------------------------------------
\* C32: every exception run_task catches is reported to the developer chat
\* before the task is restarted: when run_task sleeps before its next call,
\* the error report or the FATAL ERROR report of the caught exception was
\* delivered
C32_EveryCaughtIsReported ==
    \A t \in TaskNames :
        tasks[t].pc = "sleep" => tasks[t].report \in {"delivered", "fatal_delivered"}

\* C33: a failure inside handle_error's report is caught and leads to the
\* FATAL ERROR message, sent with raises False; a failure of that message
\* that is not transient is swallowed and handle_error returns to run_task,
\* so that the supervisor is left only by the overflow of the transient
\* retries
C33_FatalReportDoesNotPropagate ==
    [][\A t \in TaskNames :
          /\ (tasks[t].pc = "report" /\ tasks'[t].pc \notin {"report", "sleep"}) =>
                tasks'[t].pc = "fatal"
          /\ (tasks[t].pc = "fatal" /\ tasks'[t].pc # "fatal") =>
                \/ tasks'[t].pc = "sleep"
                      /\ tasks'[t].report \in {"fatal_delivered", "fatal_swallowed"}
                \/ tasks'[t].pc = "ended" /\ tasks'[t].attempt >= BACKOFF_OVERFLOW
          /\ tasks'[t].pc = "ended" => tasks[t].pc \in {"fatal", "ended"}
      ]_vars

C33_Witness ==
    \E t \in TaskNames :
        /\ tasks[t].pc = "sleep"
        /\ tasks[t].report = "fatal_swallowed"

\* ------------------------------------------------------------------------
\* Claims on the texts table
\* ------------------------------------------------------------------------
\* the content the list T gives a key: that of the key's last record
InList(T, key) == \E k \in DOMAIN T : text_key(T[k]) = key
ContentIn(T, key) ==
    T[CHOOSE k \in DOMAIN T :
         /\ text_key(T[k]) = key
         /\ \A j \in DOMAIN T : text_key(T[j]) = key => j <= k].content
Stored(rows, key) == \E t \in rows : text_key(t) = key
ContentOf(rows, key) == (CHOOSE t \in rows : text_key(t) = key).content

\* C34: after sync_texts(T) the table holds exactly the keys of T, one row
\* each, with T's content; added names exactly the keys that were not stored
\* and updated exactly the stored keys whose content changed; a second
\* sync_texts(T) changes nothing and reports nothing
C34_SyncTextsMirrors ==
    /\ texts.pc \in {"synced", "again"} =>
          /\ \A key \in TextKeys :
                /\ Stored(texts.rows, key) <=> InList(texts.incoming, key)
                /\ Stored(texts.rows, key) =>
                      ContentOf(texts.rows, key) = ContentIn(texts.incoming, key)
                /\ \A t, u \in texts.rows : text_key(t) = text_key(u) => t = u
          /\ texts.added_ids =
                {key \in TextKeys : InList(texts.incoming, key) /\ ~Stored(texts.pre, key)}
          /\ texts.updated_ids =
                {key \in TextKeys :
                    /\ InList(texts.incoming, key)
                    /\ Stored(texts.pre, key)
                    /\ ContentOf(texts.pre, key) # ContentIn(texts.incoming, key)}
    /\ texts.pc = "again" =>
          /\ texts.rows = texts.pre
          /\ texts.added_ids = {}
          /\ texts.updated_ids = {}

\* ------------------------------------------------------------------------
\* Claims on the push under concurrent mutations
\* ------------------------------------------------------------------------
\* C35: a record whose dirty flag is false has a spreadsheet row that shows
\* its current values, whatever mutating calls ran while the push was under
\* way (the gender cell, which the push never writes, is left to C8)
C35_CleanMeansMirrored ==
    /\ \A u \in users :
          ~u.needs_backup_update =>
              /\ u.google_row_id \in DOMAIN usersSheet
              /\ UserRowShows(usersSheet[u.google_row_id], u)
    /\ \A p \in pregnancies :
          ~p.needs_backup_update =>
              /\ p.id \in DOMAIN datesSheet
              /\ DateRowShows(datesSheet[p.id], [p EXCEPT !.gender = None])

\* ------------------------------------------------------------------------
\* Claims on the mark after a delivery
\* ------------------------------------------------------------------------
\* the row is marked by the step: it is posted after it and was not, with
\* that post id, before it
NewlyMarked(r) ==
    /\ r.post_id # None
    /\ ~\E q \in logs : q.id = r.id /\ q.post_id = r.post_id

\* C36: a row is marked posted only by the mark that follows a delivery which
\* returned a message, for a chunk that holds the row's id and its text, and
\* with the id of that message; a delivery that returned nothing marks no
\* row, and every post id in the store is the id of an accepted message.
C36_MarkOnlyAfterReturnedSend ==
    [][ /\ \A r \in logs' :
              NewlyMarked(r) =>
                  /\ pc = "mark"
                  /\ logged_message # NoMessage
                  /\ r.post_id = logged_message.message_id
                  /\ r.id \in SeqToSet(logs_to_send[idx].ids)
                  /\ Contains(logs_to_send[idx].text, StripNL(r.text))
                  /\ \E k \in DOMAIN sent :
                        /\ sent[k].message_id = r.post_id
                        /\ r.id \in SeqToSet(sent[k].ids)
        /\ (pc = "mark" /\ logged_message = NoMessage) =>
              \A n \in DOMAIN job.ids :
                  Pending(job.ids[n]) =>
                      \E r \in logs' : r.id = job.ids[n] /\ r.post_id = None
        /\ \A r \in logs' :
              r.post_id # None => \E k \in DOMAIN sent' : sent'[k].message_id = r.post_id
      ]_vars

\* a chunk whose delivery returned nothing is behind the cycle with its rows
\* pending, and a later chunk of the same cycle is posted
C36_Witness ==
    /\ \E i \in DOMAIN logs_to_send :
          /\ i < idx
          /\ logs_to_send[i].ids # <<>>
          /\ \A n \in DOMAIN logs_to_send[i].ids : Pending(logs_to_send[i].ids[n])
    /\ \E r \in logs : r.post_id # None /\ r.id \in SeqToSet(EntryIds(log_entries))

\* ------------------------------------------------------------------------
\* Claims on entries inserted during a flush cycle
\* ------------------------------------------------------------------------
\* the ids the running cycle fetched
FetchedIds == SeqToSet(EntryIds(log_entries))

\* C37: a row the running cycle did not fetch is neither marked nor deleted
\* while it is pending: every step keeps it as it is, the mark steps change
\* only rows whose ids were fetched, and the next fetch returns every
\* pending row, the ones inserted during the cycle included.
C37_InsertedDuringCycleKept ==
    [][ /\ \A r \in logs :
              (r.post_id = None /\ r.id \notin FetchedIds) => r \in logs'
        /\ pc = "mark" =>
              \A r \in logs : r \notin logs' => r.id \in FetchedIds
        /\ (pc = "idle" /\ logs' = logs /\ log_entries' # log_entries) =>
              \A r \in logs : r.post_id = None => r \in SeqToSet(log_entries')
      ]_vars

\* the cycle returned with rows of its own posted and a row inserted during
\* it still pending
C37_Witness ==
    /\ CycleReturned
    /\ \E r \in logs : r.post_id # None /\ r.id \in FetchedIds
    /\ \E r \in logs : r.post_id = None /\ r.id \notin FetchedIds

\* ------------------------------------------------------------------------
\* Claims on the round trip of a user through the spreadsheet
\* ------------------------------------------------------------------------
Absent(username) == username = PyNone \/ username = ""

\* C38: a pushed user pulled into an empty store comes back with the same id,
\* full name, username (absent for absent), language, reaction and row
\* pointer, and clean; the push wrote the row its pointer names.
C38_PushPullRoundTrip ==
    pull = "dates" =>
        \A u \in pre.users :
            /\ u.google_row_id \in DOMAIN usersSheet
            /\ \E v \in users :
                  /\ v.id = u.id
                  /\ v.full_name = u.full_name
                  /\ IF Absent(u.username) THEN Absent(v.username)
                                           ELSE v.username = u.username
                  /\ v.language = u.language
                  /\ v.reaction = u.reaction
                  /\ v.google_row_id = u.google_row_id
                  /\ ~v.needs_backup_update

\* ------------------------------------------------------------------------
\* Claims on the commit of the pull
\* ------------------------------------------------------------------------
\* the incoming record is one sync_pregnancies adds: its key, as the code
\* compares it, is in no stored row and no later incoming record has it
ToAdd(k) ==
    /\ \A p \in pregnancies : pregnancy_key(p) # pregnancy_key(incomingDates[k])
    /\ \A j \in DOMAIN incomingDates :
          pregnancy_key(incomingDates[j]) = pregnancy_key(incomingDates[k]) => j <= k

\* the commit cannot succeed: a record to add takes the id of a stored row
IdTaken == \E k \in DOMAIN incomingDates : ToAdd(k) /\ \E p \in pregnancies : p.id = incomingDates[k].id

\* C39: the updates and the inserts of one sync call are one commit: when
\* the commit of sync_pregnancies fails because an added record takes the id
\* of a stored row, no date record is updated or inserted by the call.
C39_PullCommitAllOrNothing ==
    [][(pull = "dates" /\ pull' # "dates" /\ IdTaken) =>
           /\ pregnancies' = pregnancies
           /\ users' = users]_vars

\* a failed commit that held an update of a stored row besides the insert
C39_Witness ==
    /\ pull = "done"
    /\ pregnancies = pre.pregnancies
    /\ \E k \in DOMAIN incomingDates :
          /\ \A p \in pre.pregnancies : pregnancy_key(p) # pregnancy_key(incomingDates[k])
          /\ \E p \in pre.pregnancies : p.id = incomingDates[k].id
    /\ \E k \in DOMAIN incomingDates :
          \E p \in pre.pregnancies :
              /\ pregnancy_key(p) = pregnancy_key(incomingDates[k])
              /\ <<p.pdr_date, p.period_date, p.gender>> #
                    <<incomingDates[k].pdr_date, incomingDates[k].period_date,
                      incomingDates[k].gender>>

\* ------------------------------------------------------------------------
\* Claims on the order of message and log entry in a scan
\* ------------------------------------------------------------------------
ScanRaised == {"raised", "pdr_raised"}

\* the record the loop of the running scan is at
ScanAt ==
    IF scan.pc = "loop" THEN scan.i
    ELSE IF scan.pc = "pdr_loop" /\ scan.i <= Len(PdrFetched) THEN PdrFetched[scan.i]
    ELSE 0

\* C40: a log entry is enqueued only in a pass whose send returned; the pass
\* whose send raises enqueues nothing, ends the invocation and leaves the
\* messages and log entries of every other record as they are, and nothing
\* is sent or enqueued between the raise and the next invocation.
C40_LogAfterSendReturned ==
    [][scan'.pregnancies = scan.pregnancies =>
         /\ \A k \in 1..Len(scan.pregnancies) :
               /\ scan'.logs[k] # scan.logs[k] =>
                     /\ k = ScanAt
                     /\ scan'.logs[k] = scan.logs[k] + 1
                     /\ scan'.messages[k] = scan.messages[k] + 1
                     /\ scan'.pc \notin ScanRaised
               /\ (scan'.pc \in ScanRaised /\ k # ScanAt) =>
                     /\ scan'.messages[k] = scan.messages[k]
                     /\ scan'.logs[k] = scan.logs[k]
         /\ scan.pc \in ScanRaised =>
               /\ scan'.messages = scan.messages
               /\ scan'.logs = scan.logs
         /\ (scan'.pc \in ScanRaised /\ scan.pc \notin ScanRaised) =>
               /\ scan'.logs = scan.logs
               /\ scan'.i = scan.i
      ]_vars

\* the send for the second of three matches raised in the first invocation:
\* the first has its message and its log entry, the second its message call
\* only, the third nothing
C40_Witness ==
    /\ scan.pc = "raised"
    /\ scan.runs = 1
    /\ Len(scan.pregnancies) = 3
    /\ scan.i = 2
    /\ scan.messages = <<1, 1, 0>>
    /\ scan.logs = <<1, 0, 0>>
    /\ notifies(scan.now, scan.pregnancies[3])

====
